---- MODULE Spec2Model ----
(***************************************************************************)
(* The reversible game-state machine of Deep Sea Adventure                 *)
(* (package state, type standardState): Do / Undo / ValidDecisions with    *)
(* the helpers validate, move, pickup, drop, toNextTurn and endRound.      *)
(*                                                                         *)
(* Go slices are modelled by what they are: a slice header (backing array, *)
(* length) over a backing array that lives in a shared memory `heap`.      *)
(* clone() copies Player and Tile structs by value, so a snapshot shares   *)
(* the backing arrays of the held-treasure slices and the *TreasureStack   *)
(* pointers of the tiles with the live state.                              *)
(*                                                                         *)
(* Two kinds of slice are kept as plain sequences, because nothing ever    *)
(* writes an element that one of their headers covers: a TreasureStack     *)
(* (its treasures are appended while it is built and never touched again)  *)
(* and a player's StashedTreasure (only ever appended to).                 *)
(*                                                                         *)
(* Positions and player indices are 0-based as in the source; TLA+         *)
(* sequences are 1-based, hence the + 1 where a sequence is indexed.       *)
(***************************************************************************)
EXTENDS Integers, Sequences, FiniteSets, TLC

(* ------------------------------ bounds --------------------------------- *)
\* Largest player count handed to NewStandardState.
MaxPlayers == 2
\* Number of treasure tiles laid out per treasure type (a prefix of the
\* type's value list); the source lays out all eight.
GroupSize == 1
\* Upper bound on the number of snapshots on the undo history while the
\* state is explored with Do and Undo.
MaxHistory == 13
\* Upper bound on the number of snapshots on the undo history in forward play.
MaxPlay == 12
\* Largest index used in a Drop decision handed to Do.
MaxDropIndex == 1
\* Upper bound on the number of decisions of the single round played on the
\* full board (no such round is longer).
MaxDive == 80
\* Largest roll made in the single round played on the full board.
MaxDiveRoll == 3
\* Number of decisions of the game played before Evaluate after which
\* Evaluate may be called.
EvalFrom == 6
\* Upper bound on the number of snapshots on the undo history during a
\* search.
MaxSearch == 24
\* Upper bound on the number of snapshots on the undo history during a
\* search whose values are followed.
MaxBest == 40
\* Number of decisions of the game of two played before Evaluate after which
\* Evaluate may be called.
BestFrom == 16
\* Largest search depth handed to Evaluate.
MaxDepth == 2
\* Number of playouts of one estimate (the source makes 100).
estimateIterations == 1
\* Number of decisions applied to a freshly laid out full board.
MaxDeal == 1
\* Number of players of the crowded game on the full board.
CrowdSize == 32
\* Upper bound on the number of decisions of the crowded game.
MaxCrowd == 400
\* Largest number of spaces handed to the exported Move.
MaxSpaces == 100

(* ------------------------- program constants --------------------------- *)
InitialAir == 25
FirstRound == 1
FinalRound == 3
StackSize == 3
MinRoll == 2
MaxRoll == 6

TileTypeSubmarine == 1
TileTypeTreasure == 2
TileTypeEmpty == 3

TreasureTypeOne == 1
treasureTypeSentinel == 5

StageRoll == "Roll"
StagePickUp == "PickUp"
StageDrop == "Drop"
StageTurn == "Turn"
StageEndOfGame == "EndOfGame"

\* error values; NoErr is Go's nil error
NoErr == "nil"
ErrInvalidDecision == "attempted to do invalid decision"
ErrEmptyHistory == "attempted to undo a state with no history"
ErrIllegalPosition == "player is in illegal position"
ErrMultiplePlayers == "multiple players occupying non-submarine tile"
ErrNotTreasure == "player tried to pick up non-treasure tile"
ErrNoSuchTreasure == "player tried to drop non-existent treasure"
ErrNotEmpty == "player tried to drop on non-empty tile"

(* ------------------------------ helpers -------------------------------- *)
Max(a, b) == IF a >= b THEN a ELSE b
Min(a, b) == IF a <= b THEN a ELSE b
Last(s) == s[Len(s)]
Front(s) == SubSeq(s, 1, Len(s) - 1)

RECURSIVE Flatten(_)
\* concatenation of a sequence of sequences
Flatten(ss) == IF ss = <<>> THEN <<>> ELSE Head(ss) \o Flatten(Tail(ss))

(* ----------------------------- decisions ------------------------------- *)
\* A decision is an action with an embedded value and a yes/no flag.
Roll(v) == [action |-> "Roll", value |-> v, yes |-> FALSE]
PickUp(b) == [action |-> "PickUp", value |-> 0, yes |-> b]
Drop(i, b) == [action |-> "Drop", value |-> i, yes |-> b]
Turn(b) == [action |-> "Turn", value |-> 0, yes |-> b]

\* The decisions handed to Do: every legal one and illegal ones of each kind.
DecisionInputs ==
    {Roll(v) : v \in (MinRoll - 1)..(MaxRoll + 1)}
        \cup {PickUp(b) : b \in BOOLEAN}
        \cup {Drop(i, b) : i \in 0..MaxDropIndex, b \in BOOLEAN}
        \cup {Turn(b) : b \in BOOLEAN}

(* ------------------------- memory: slices ------------------------------ *)
\* A []TreasureStack slice header: backing array (0 = nil) and length; the
\* capacity is the length of the backing array.  Every slice of the program
\* starts at offset 0 of its array.
NilSlice == [arr |-> 0, len |-> 0]

\* heap[a] is backing array a, a sequence of cap(a) TreasureStack values
\* (unused slots hold the nil stack <<>>); <<>> marks an unallocated id.
ArrayOf(h, a) == IF a = 0 THEN <<>> ELSE h[a]
\* the elements a slice header denotes
Elems(h, sl) == SubSeq(ArrayOf(h, sl.arr), 1, sl.len)

NilStacks(n) == [i \in 1..n |-> <<>>]

\* smallest unallocated array id
Alloc(h) ==
    IF \E a \in 1..Len(h) : h[a] = <<>>
        THEN CHOOSE a \in 1..Len(h) : h[a] = <<>> /\ \A b \in 1..(a - 1) : h[b] # <<>>
        ELSE Len(h) + 1

Store(h, a, arr) ==
    IF a <= Len(h) THEN [h EXCEPT ![a] = arr] ELSE Append(h, arr)

\* capacity chosen by the runtime when an append does not fit (growslice):
\* the needed length if it exceeds twice the old capacity, else double.
growslice(oldCap, needed) ==
    IF needed > 2 * oldCap THEN needed ELSE 2 * oldCap

\* append(sl, elems...): in place when the capacity suffices, otherwise into
\* a fresh array holding a copy of sl's elements.  elems are values read
\* before anything is written (copy semantics of overlapping slices).
append(h, sl, elems) ==
    LET need == sl.len + Len(elems)
        old  == ArrayOf(h, sl.arr)
    IN  IF elems = <<>> THEN [heap |-> h, slice |-> sl]
        ELSE IF need <= Len(old)
            THEN [heap  |-> [h EXCEPT ![sl.arr] =
                                SubSeq(old, 1, sl.len) \o elems
                                    \o SubSeq(old, need + 1, Len(old))],
                  slice |-> [arr |-> sl.arr, len |-> need]]
            ELSE LET a  == Alloc(h)
                     nc == growslice(Len(old), need)
                 IN  [heap  |-> Store(h, a, SubSeq(old, 1, sl.len) \o elems
                                               \o NilStacks(nc - need)),
                      slice |-> [arr |-> a, len |-> need]]

(* ------------------------- memory: pointers ---------------------------- *)
\* A *TreasureStack: nil, a pointer to a stack of its own (never written
\* after creation), or a pointer to element idx of a held-treasure array.
NilPtr == [kind |-> "nil", val |-> <<>>, arr |-> 0, idx |-> 0]
ObjPtr(ts) == [kind |-> "obj", val |-> ts, arr |-> 0, idx |-> 0]
ElemPtr(a, i) == [kind |-> "elem", val |-> <<>>, arr |-> a, idx |-> i]

Deref(h, p) == IF p.kind = "elem" THEN h[p.arr][p.idx + 1] ELSE p.val

(* ------------------------------ data ----------------------------------- *)
treasureValues ==
    [tt \in TreasureTypeOne..(treasureTypeSentinel - 1) |->
        CASE tt = 1 -> <<0, 0, 1, 1, 2, 2, 3, 3>>
          [] tt = 2 -> <<4, 4, 5, 5, 6, 6, 7, 7>>
          [] tt = 3 -> <<8, 8, 9, 9, 10, 10, 11, 11>>
          [] tt = 4 -> <<12, 12, 13, 13, 14, 14, 15, 15>>]

getTreasureTypes ==
    [i \in 1..(treasureTypeSentinel - TreasureTypeOne) |-> TreasureTypeOne + i - 1]

\* the values laid out for one treasure type
getTreasureValues(tt) == SubSeq(treasureValues[tt], 1, GroupSize)

Treasure(tt, v) == [Type |-> tt, Value |-> v]
Tile(ty, ptr) == [Type |-> ty, Treasure |-> ptr]
Player == [Position |-> 0, TurnedAround |-> FALSE,
           HeldTreasure |-> NilSlice, StashedTreasure |-> <<>>]

\* every order rand.Shuffle can leave vl in
Shuffles(vl) ==
    {f \in [1..Len(vl) -> {vl[i] : i \in 1..Len(vl)}] :
        \E q \in [1..Len(vl) -> 1..Len(vl)] :
            /\ \A i, j \in 1..Len(vl) : i # j => q[i] # q[j]
            /\ \A i \in 1..Len(vl) : f[i] = vl[q[i]]}

\* a board that starts with the first treasure tile
NewStandardStateNoSubmarine(n, sh) ==
    [air       |-> InitialAir,
     round     |-> FirstRound,
     stage     |-> StageRoll,
     curPlayer |-> 0,
     players   |-> [i \in 1..n |-> Player],
     tiles     |-> Flatten([k \in 1..Len(getTreasureTypes) |->
                       [j \in 1..Len(sh[k]) |->
                           Tile(TileTypeTreasure,
                                ObjPtr(<<Treasure(getTreasureTypes[k], sh[k][j])>>))]]),
     heap      |-> <<>>]

\* NewStandardState(n) for the shuffle outcome sh (one order per type)
NewStandardState(n, sh) ==
    [air       |-> InitialAir,
     round     |-> FirstRound,
     stage     |-> StageRoll,
     curPlayer |-> 0,
     players   |-> [i \in 1..n |-> Player],
     tiles     |-> <<Tile(TileTypeSubmarine, NilPtr)>> \o
                   Flatten([k \in 1..Len(getTreasureTypes) |->
                       [j \in 1..Len(sh[k]) |->
                           Tile(TileTypeTreasure,
                                ObjPtr(<<Treasure(getTreasureTypes[k], sh[k][j])>>))]]),
     heap      |-> <<>>]

\* vl[i], vl[j] = vl[j], vl[i]
swap(vl, i, j) == [vl EXCEPT ![i + 1] = vl[j + 1], ![j + 1] = vl[i + 1]]

RECURSIVE shuffleFrom(_, _, _)
\* rand.Shuffle from index i down to 1, draw[i] in 0..i being what it draws
\* for index i
shuffleFrom(vl, i, draw) ==
    IF i <= 0 THEN vl ELSE shuffleFrom(swap(vl, i, draw[i]), i - 1, draw)

\* the draws of rand.Shuffle of n values that are followed: no swap at all,
\* every element swapped with the first, with the one before it, with the
\* one halfway down
ShuffleDraws(n) ==
    {[i \in 1..(n - 1) |-> i], [i \in 1..(n - 1) |-> 0],
     [i \in 1..(n - 1) |-> i - 1], [i \in 1..(n - 1) |-> i \div 2]}

\* the orders these draws leave all the values of each type in
FullDeals ==
    {[k \in 1..Len(getTreasureTypes) |->
         shuffleFrom(treasureValues[getTreasureTypes[k]],
                     Len(treasureValues[getTreasureTypes[k]]) - 1, ds[k])] :
        ds \in [1..Len(getTreasureTypes) ->
                  ShuffleDraws(Len(treasureValues[TreasureTypeOne]))]}

(* --------------------------- state helpers ----------------------------- *)
inBounds(s, pos) == pos >= 0 /\ pos < Len(s.tiles)

isFinished(p) == p.Position = 0 /\ p.TurnedAround

\* the player with (0-based) index i, the tile at (0-based) position pos
PlayerAt(s, i) == s.players[i + 1]
TileAt(s, pos) == s.tiles[pos + 1]

Result(s, err) == [s |-> s, err |-> err]

\* fmt.Errorf("<context>: %v", err)
Wrap(context, err) == context \o ": " \o err

RECURSIVE validateFrom(_, _, _)
\* the loop of validate from player i on; pm is the set of positions seen
validateFrom(s, i, pm) ==
    IF i > Len(s.players) THEN NoErr
    ELSE LET pos == s.players[i].Position
         IN  IF ~inBounds(s, pos) THEN ErrIllegalPosition
             ELSE IF pos = 0 THEN validateFrom(s, i + 1, pm)
             ELSE IF pos \in pm THEN ErrMultiplePlayers
             ELSE validateFrom(s, i + 1, pm \cup {pos})

validate(s) == validateFrom(s, 1, {})

(* ------------------------------- move ---------------------------------- *)
\* a map of occupied squares that is never filled
occupiedNone(s) == {}

\* sm: the non-submarine squares that contain a player (p's own included)
occupiedSquares(s) ==
    {s.players[i].Position : i \in 1..Len(s.players)} \ {0}

\* no jump over players
hopNone(s, sm, newPos, skip) == newPos

RECURSIVE hop(_, _, _, _)
\* jump over players
hop(s, sm, newPos, skip) ==
    IF inBounds(s, newPos) /\ newPos \in sm
        THEN hop(s, sm, newPos + skip, skip)
        ELSE newPos

RECURSIVE moveLoop(_, _, _, _, _)
\* the position after the remaining `spaces` iterations of move's loop
moveLoop(s, sm, skip, pos, spaces) ==
    IF spaces <= 0 THEN pos
    ELSE IF ~inBounds(s, pos + skip) THEN pos
    ELSE LET newPos == hop(s, sm, pos + skip, skip)
         IN  IF ~inBounds(s, newPos) \/ newPos \in sm THEN pos
             ELSE moveLoop(s, sm, skip, newPos, spaces - 1)

\* move that takes every player deeper, turned around or not
moveDeeper(s, p, spaces) ==
    LET verr == validate(s)
        pl   == PlayerAt(s, p)
        n    == IF spaces < 0 THEN -spaces ELSE spaces
    IN  IF verr # NoErr
            THEN Result(s, Wrap("validation error while moving", verr))
            ELSE Result([s EXCEPT !.players[p + 1].Position =
                            moveLoop(s, occupiedSquares(s), 1, pl.Position, n)],
                        NoErr)

move(s, p, spaces) ==
    LET verr == validate(s)
        pl   == PlayerAt(s, p)
        skip == IF pl.TurnedAround THEN -1 ELSE 1
        n    == IF spaces < 0 THEN -spaces ELSE spaces
    IN  IF verr # NoErr
            THEN Result(s, Wrap("validation error while moving", verr))
            ELSE Result([s EXCEPT !.players[p + 1].Position =
                            moveLoop(s, occupiedSquares(s), skip, pl.Position, n)],
                        NoErr)

RECURSIVE MoveLoop(_, _, _, _, _)
\* the position after the remaining `spaces` iterations of the loop of the
\* exported State.Move
MoveLoop(s, sm, skip, pos, spaces) ==
    IF spaces <= 0 THEN pos
    ELSE LET newPos == hop(s, sm, pos + skip, skip)
         IN  IF newPos \in sm THEN pos
             ELSE MoveLoop(s, sm, skip, newPos, spaces - 1)

\* State.Move of package state, on the players and tiles of s
Move(s, p, spaces) ==
    LET verr == validate(s)
        pl   == PlayerAt(s, p)
        skip == IF pl.TurnedAround THEN -1 ELSE 1
        n    == IF spaces < 0 THEN -spaces ELSE spaces
    IN  IF verr # NoErr
            THEN Result(s, Wrap("validation error while moving", verr))
            ELSE Result([s EXCEPT !.players[p + 1].Position =
                            MoveLoop(s, occupiedSquares(s), skip, pl.Position, n)],
                        NoErr)

(* --------------------------- pickup / drop ----------------------------- *)
\* pickup that leaves the stack on the tile
pickupKeepTile(s, p) ==
    LET verr == validate(s)
        pl   == PlayerAt(s, p)
        t    == TileAt(s, pl.Position)
    IN  IF verr # NoErr
            THEN Result(s, Wrap("validation error while picking up", verr))
        ELSE IF t.Type # TileTypeTreasure THEN Result(s, ErrNotTreasure)
        ELSE LET r == append(s.heap, pl.HeldTreasure, <<Deref(s.heap, t.Treasure)>>)
             IN  Result([s EXCEPT !.heap = r.heap,
                                  !.players[p + 1].HeldTreasure = r.slice],
                        NoErr)

pickup(s, p) ==
    LET verr == validate(s)
        pl   == PlayerAt(s, p)
        t    == TileAt(s, pl.Position)
    IN  IF verr # NoErr
            THEN Result(s, Wrap("validation error while picking up", verr))
        ELSE IF t.Type # TileTypeTreasure THEN Result(s, ErrNotTreasure)
        ELSE LET r == append(s.heap, pl.HeldTreasure, <<Deref(s.heap, t.Treasure)>>)
             IN  Result([s EXCEPT !.heap = r.heap,
                                  !.players[p + 1].HeldTreasure = r.slice,
                                  !.tiles[pl.Position + 1] = Tile(TileTypeEmpty, NilPtr)],
                        NoErr)

drop(s, p, index) ==
    LET verr == validate(s)
        pl   == PlayerAt(s, p)
        held == pl.HeldTreasure
    IN  IF verr # NoErr
            THEN Result(s, Wrap("validation error while dropping", verr))
        ELSE IF index < 0 \/ index >= held.len THEN Result(s, ErrNoSuchTreasure)
        ELSE IF TileAt(s, pl.Position).Type # TileTypeEmpty THEN Result(s, ErrNotEmpty)
        ELSE \* the tile points at element index of the held array; the held
             \* list becomes append(held[:index], held[:index+1]...)
             LET r == append(s.heap, [arr |-> held.arr, len |-> index],
                             SubSeq(ArrayOf(s.heap, held.arr), 1, index + 1))
             IN  Result([s EXCEPT !.heap = r.heap,
                                  !.tiles[pl.Position + 1] =
                                      Tile(TileTypeTreasure, ElemPtr(held.arr, index)),
                                  !.players[p + 1].HeldTreasure = r.slice],
                        NoErr)

(* ----------------------------- endRound -------------------------------- *)
RECURSIVE stackFrom(_, _, _)
\* the loop of stack over the remaining treasures tl, cur being the stack
\* under construction
stackFrom(tl, size, cur) ==
    IF tl = <<>> THEN (IF Len(cur) > 0 THEN <<cur>> ELSE <<>>)
    ELSE LET c == Append(cur, Head(tl))
         IN  IF Len(c) >= size
                 THEN <<c>> \o stackFrom(Tail(tl), size, <<>>)
                 ELSE stackFrom(Tail(tl), size, c)

\* stack that forgets the treasures left over after the last full stack
stackNoRemainder(tl, size) ==
    [k \in 1..(Len(tl) \div size) |-> SubSeq(tl, (k - 1) * size + 1, k * size)]

stack(tl, size) == stackFrom(tl, size, <<>>)

\* the treasures of the players who did not reach the submarine, pooled in
\* player order
deadTreasure(s) ==
    Flatten([i \in 1..Len(s.players) |->
        IF s.players[i].Position = 0 THEN <<>>
        ELSE Flatten(Elems(s.heap, s.players[i].HeldTreasure))])

\* a reset that leaves the player turned around
resetPlayerKeepTurned(s, p) ==
    [Position        |-> 0,
     TurnedAround    |-> p.TurnedAround,
     HeldTreasure    |-> NilSlice,
     StashedTreasure |-> IF p.Position = 0
                            THEN p.StashedTreasure \o Elems(s.heap, p.HeldTreasure)
                            ELSE p.StashedTreasure]

\* a reset after which a survivor's stash is what it brought home this round
resetPlayerStashAnew(s, p) ==
    [Position        |-> 0,
     TurnedAround    |-> FALSE,
     HeldTreasure    |-> NilSlice,
     StashedTreasure |-> IF p.Position = 0
                            THEN Elems(s.heap, p.HeldTreasure)
                            ELSE p.StashedTreasure]

\* player p after the reset of endRound
resetPlayer(s, p) ==
    [Position        |-> 0,
     TurnedAround    |-> FALSE,
     HeldTreasure    |-> NilSlice,
     StashedTreasure |-> IF p.Position = 0
                            THEN p.StashedTreasure \o Elems(s.heap, p.HeldTreasure)
                            ELSE p.StashedTreasure]

endRound(s) ==
    LET verr == validate(s)
        kept == SelectSeq(s.tiles, LAMBDA t : t.Type # TileTypeEmpty)
        tsl  == stack(deadTreasure(s), StackSize)
    IN  IF verr # NoErr
            THEN Result(s, Wrap("validation error while ending turn", verr))
            ELSE Result([s EXCEPT
                    !.players = [i \in 1..Len(s.players) |-> resetPlayer(s, s.players[i])],
                    !.tiles = kept \o [k \in 1..Len(tsl) |->
                                           Tile(TileTypeTreasure, ObjPtr(tsl[k]))],
                    !.round = s.round + 1,
                    !.air = InitialAir,
                    !.curPlayer = 0],
                 NoErr)

(* ---------------------------- toNextTurn ------------------------------- *)
RECURSIVE nextPlayerFrom(_, _)
\* the search loop of toNextTurn, started at candidate np
nextPlayerFrom(s, np) ==
    IF np = s.curPlayer THEN np
    ELSE IF ~isFinished(PlayerAt(s, np)) THEN np
    ELSE nextPlayerFrom(s, (np + 1) % Len(s.players))

\* toNextTurn that ends the game one round late
toNextTurnLate(s) ==
    LET np == nextPlayerFrom(s, (s.curPlayer + 1) % Len(s.players))
        s1 == [s EXCEPT !.curPlayer = np]
        cp == PlayerAt(s1, np)
    IN  IF s1.air <= 0 \/ isFinished(cp)
            THEN LET r == endRound(s1)
                 IN  IF r.err # NoErr THEN r
                     ELSE Result([r.s EXCEPT !.stage =
                                     IF r.s.round > FinalRound + 1
                                         THEN StageEndOfGame ELSE StageRoll],
                                 NoErr)
            ELSE Result([s1 EXCEPT !.stage =
                            IF cp.Position > 0 /\ ~cp.TurnedAround
                                THEN StageTurn ELSE StageRoll],
                        NoErr)

\* toNextTurn that asks every player off the submarine whether to turn
toNextTurnAskAgain(s) ==
    LET np == nextPlayerFrom(s, (s.curPlayer + 1) % Len(s.players))
        s1 == [s EXCEPT !.curPlayer = np]
        cp == PlayerAt(s1, np)
    IN  IF s1.air <= 0 \/ isFinished(cp)
            THEN LET r == endRound(s1)
                 IN  IF r.err # NoErr THEN r
                     ELSE Result([r.s EXCEPT !.stage =
                                     IF r.s.round > FinalRound
                                         THEN StageEndOfGame ELSE StageRoll],
                                 NoErr)
            ELSE Result([s1 EXCEPT !.stage =
                            IF cp.Position > 0 THEN StageTurn ELSE StageRoll],
                        NoErr)

\* toNextTurn that ends the round only when the air is out
toNextTurnAirOnly(s) ==
    LET np == nextPlayerFrom(s, (s.curPlayer + 1) % Len(s.players))
        s1 == [s EXCEPT !.curPlayer = np]
        cp == PlayerAt(s1, np)
    IN  IF s1.air <= 0
            THEN LET r == endRound(s1)
                 IN  IF r.err # NoErr THEN r
                     ELSE Result([r.s EXCEPT !.stage =
                                     IF r.s.round > FinalRound
                                         THEN StageEndOfGame ELSE StageRoll],
                                 NoErr)
            ELSE Result([s1 EXCEPT !.stage =
                            IF cp.Position > 0 /\ ~cp.TurnedAround
                                THEN StageTurn ELSE StageRoll],
                        NoErr)

\* toNextTurn that goes on when the air is out
toNextTurnOutOfAir(s) ==
    LET np == nextPlayerFrom(s, (s.curPlayer + 1) % Len(s.players))
        s1 == [s EXCEPT !.curPlayer = np]
        cp == PlayerAt(s1, np)
    IN  IF isFinished(cp)
            THEN LET r == endRound(s1)
                 IN  IF r.err # NoErr THEN r
                     ELSE Result([r.s EXCEPT !.stage =
                                     IF r.s.round > FinalRound
                                         THEN StageEndOfGame ELSE StageRoll],
                                 NoErr)
            ELSE Result([s1 EXCEPT !.stage =
                            IF cp.Position > 0 /\ ~cp.TurnedAround
                                THEN StageTurn ELSE StageRoll],
                        NoErr)

toNextTurn(s) ==
    LET np == nextPlayerFrom(s, (s.curPlayer + 1) % Len(s.players))
        s1 == [s EXCEPT !.curPlayer = np]
        cp == PlayerAt(s1, np)
    IN  IF s1.air <= 0 \/ isFinished(cp)
            THEN LET r == endRound(s1)
                 IN  IF r.err # NoErr THEN r
                     ELSE Result([r.s EXCEPT !.stage =
                                     IF r.s.round > FinalRound
                                         THEN StageEndOfGame ELSE StageRoll],
                                 NoErr)
            ELSE Result([s1 EXCEPT !.stage =
                            IF cp.Position > 0 /\ ~cp.TurnedAround
                                THEN StageTurn ELSE StageRoll],
                        NoErr)

(* -------------------------- ValidDecisions ----------------------------- *)
\* ValidDecisions that offers nothing to a player at the end of the board
ValidDecisionsNoneAtEnd(s) ==
    CASE s.stage = StageRoll ->
            [i \in 1..(MaxRoll - MinRoll + 1) |-> Roll(MinRoll + i - 1)]
      [] s.stage = StagePickUp -> <<PickUp(TRUE), PickUp(FALSE)>>
      [] s.stage = StageDrop ->
            <<Drop(0, FALSE)>> \o
                [i \in 1..PlayerAt(s, s.curPlayer).HeldTreasure.len |-> Drop(i - 1, TRUE)]
      [] s.stage = StageTurn ->
            IF PlayerAt(s, s.curPlayer).Position = Len(s.tiles) - 1
                THEN <<>>
                ELSE <<Turn(TRUE), Turn(FALSE)>>
      [] s.stage = StageEndOfGame -> <<>>

\* ValidDecisions whose drop indices start at 1
ValidDecisionsDropFromOne(s) ==
    CASE s.stage = StageRoll ->
            [i \in 1..(MaxRoll - MinRoll + 1) |-> Roll(MinRoll + i - 1)]
      [] s.stage = StagePickUp -> <<PickUp(TRUE), PickUp(FALSE)>>
      [] s.stage = StageDrop ->
            <<Drop(0, FALSE)>> \o
                [i \in 1..PlayerAt(s, s.curPlayer).HeldTreasure.len |-> Drop(i, TRUE)]
      [] s.stage = StageTurn ->
            IF PlayerAt(s, s.curPlayer).Position = Len(s.tiles) - 1
                THEN <<Turn(TRUE)>>
                ELSE <<Turn(TRUE), Turn(FALSE)>>
      [] s.stage = StageEndOfGame -> <<>>

\* ValidDecisions that lets a player at the end of the board go on
ValidDecisionsTurnFree(s) ==
    CASE s.stage = StageRoll ->
            [i \in 1..(MaxRoll - MinRoll + 1) |-> Roll(MinRoll + i - 1)]
      [] s.stage = StagePickUp -> <<PickUp(TRUE), PickUp(FALSE)>>
      [] s.stage = StageDrop ->
            <<Drop(0, FALSE)>> \o
                [i \in 1..PlayerAt(s, s.curPlayer).HeldTreasure.len |-> Drop(i - 1, TRUE)]
      [] s.stage = StageTurn ->
            <<Turn(TRUE), Turn(FALSE)>>
      [] s.stage = StageEndOfGame -> <<>>

\* ValidDecisions that offers only the first held stack for dropping
ValidDecisionsDropFirst(s) ==
    CASE s.stage = StageRoll ->
            [i \in 1..(MaxRoll - MinRoll + 1) |-> Roll(MinRoll + i - 1)]
      [] s.stage = StagePickUp -> <<PickUp(TRUE), PickUp(FALSE)>>
      [] s.stage = StageDrop ->
            <<Drop(0, FALSE)>> \o
                [i \in 1..Min(1, PlayerAt(s, s.curPlayer).HeldTreasure.len) |-> Drop(i - 1, TRUE)]
      [] s.stage = StageTurn ->
            IF PlayerAt(s, s.curPlayer).Position = Len(s.tiles) - 1
                THEN <<Turn(TRUE)>>
                ELSE <<Turn(TRUE), Turn(FALSE)>>
      [] s.stage = StageEndOfGame -> <<>>

ValidDecisions(s) ==
    CASE s.stage = StageRoll ->
            [i \in 1..(MaxRoll - MinRoll + 1) |-> Roll(MinRoll + i - 1)]
      [] s.stage = StagePickUp -> <<PickUp(TRUE), PickUp(FALSE)>>
      [] s.stage = StageDrop ->
            <<Drop(0, FALSE)>> \o
                [i \in 1..PlayerAt(s, s.curPlayer).HeldTreasure.len |-> Drop(i - 1, TRUE)]
      [] s.stage = StageTurn ->
            IF PlayerAt(s, s.curPlayer).Position = Len(s.tiles) - 1
                THEN <<Turn(TRUE)>>
                ELSE <<Turn(TRUE), Turn(FALSE)>>
      [] s.stage = StageEndOfGame -> <<>>

isValid(s, d) == \E i \in 1..Len(ValidDecisions(s)) : ValidDecisions(s)[i] = d

(* --------------------------------- Do ---------------------------------- *)
\* rollMove without the floor on the number of moves
rollMoveNoFloor(s, d) ==
    LET held  == PlayerAt(s, s.curPlayer).HeldTreasure.len
        s1    == [s EXCEPT !.air = Max(0, s.air - held)]
    IN  move(s1, s.curPlayer, d.value - held)

\* rollMove without the floor on the air
rollMoveAirBelowZero(s, d) ==
    LET cp    == PlayerAt(s, s.curPlayer)
        held  == cp.HeldTreasure.len
        moves == Max(0, d.value - held)
        s1    == [s EXCEPT !.air = s.air - held]
    IN  move(s1, s.curPlayer, moves)

\* rollMove that takes the air for the stacks of every player
rollMoveAirForAll(s, d) ==
    LET cp    == PlayerAt(s, s.curPlayer)
        held  == cp.HeldTreasure.len
        all   == Len(Flatten([i \in 1..Len(s.players) |->
                                 [k \in 1..s.players[i].HeldTreasure.len |-> i]]))
        moves == Max(0, d.value - held)
        s1    == [s EXCEPT !.air = Max(0, s.air - all)]
    IN  move(s1, s.curPlayer, moves)

\* the state after the air and move updates of a roll (Do, StageRoll)
rollMove(s, d) ==
    LET cp    == PlayerAt(s, s.curPlayer)
        held  == cp.HeldTreasure.len
        moves == Max(0, d.value - held)
        s1    == [s EXCEPT !.air = Max(0, s.air - held)]
    IN  move(s1, s.curPlayer, moves)

\* a roll after which nothing is ever dropped
doRollNoDrop(s, d) ==
    LET r  == rollMove(s, d)
        cp == PlayerAt(r.s, r.s.curPlayer)
    IN  IF r.err # NoErr THEN r
        ELSE IF TileAt(r.s, cp.Position).Type = TileTypeTreasure
            THEN Result([r.s EXCEPT !.stage = StagePickUp], NoErr)
        ELSE toNextTurn(r.s)

\* a roll that offers a drop on every empty tile, held stacks or not
doRollDropEmptyHanded(s, d) ==
    LET r  == rollMove(s, d)
        cp == PlayerAt(r.s, r.s.curPlayer)
    IN  IF r.err # NoErr THEN r
        ELSE IF TileAt(r.s, cp.Position).Type = TileTypeTreasure
            THEN Result([r.s EXCEPT !.stage = StagePickUp], NoErr)
        ELSE IF TileAt(r.s, cp.Position).Type = TileTypeEmpty
            THEN Result([r.s EXCEPT !.stage = StageDrop], NoErr)
        ELSE toNextTurn(r.s)

doRoll(s, d) ==
    LET r  == rollMove(s, d)
        cp == PlayerAt(r.s, r.s.curPlayer)
    IN  IF r.err # NoErr THEN r
        ELSE IF TileAt(r.s, cp.Position).Type = TileTypeTreasure
            THEN Result([r.s EXCEPT !.stage = StagePickUp], NoErr)
        ELSE IF TileAt(r.s, cp.Position).Type = TileTypeEmpty /\ cp.HeldTreasure.len > 0
            THEN Result([r.s EXCEPT !.stage = StageDrop], NoErr)
        ELSE toNextTurn(r.s)

\* a pick-up after which the player is asked what to drop
doPickUpThenDrop(s, d) ==
    LET r == IF d.yes THEN pickup(s, s.curPlayer) ELSE Result(s, NoErr)
    IN  IF r.err # NoErr THEN r
        ELSE IF d.yes THEN Result([r.s EXCEPT !.stage = StageDrop], NoErr)
        ELSE toNextTurn(r.s)

doPickUp(s, d) ==
    LET r == IF d.yes THEN pickup(s, s.curPlayer) ELSE Result(s, NoErr)
    IN  IF r.err # NoErr THEN r ELSE toNextTurn(r.s)

doDrop(s, d) ==
    LET r == IF d.yes THEN drop(s, s.curPlayer, d.value) ELSE Result(s, NoErr)
    IN  IF r.err # NoErr THEN r ELSE toNextTurn(r.s)

\* a turn decision that turns the player around whatever the answer
doTurnAlways(s, d) ==
    Result([s EXCEPT !.players[s.curPlayer + 1].TurnedAround = TRUE,
                     !.stage = StageRoll],
           NoErr)

doTurn(s, d) ==
    Result([s EXCEPT !.players[s.curPlayer + 1].TurnedAround = (@ \/ d.yes),
                     !.stage = StageRoll],
           NoErr)

\* Do after the snapshot has been pushed: the validity check and the switch
\* on the stage
doDecision(s, d) ==
    IF ~isValid(s, d) THEN Result(s, ErrInvalidDecision)
    ELSE CASE s.stage = StageRoll -> doRoll(s, d)
           [] s.stage = StagePickUp -> doPickUp(s, d)
           [] s.stage = StageDrop -> doDrop(s, d)
           [] s.stage = StageTurn -> doTurn(s, d)

\* clone: every field by value except the history, which the literal leaves
\* nil.  Player and Tile structs are copied as they are, slice headers and
\* pointers included.
clone(s) ==
    [air |-> s.air, round |-> s.round, stage |-> s.stage,
     curPlayer |-> s.curPlayer, players |-> s.players, tiles |-> s.tiles]

(* ------------------------- evaluator: values --------------------------- *)
\* A *big.Rat, kept in lowest terms as big.Rat keeps it: the exponent of
\* each prime in the fraction (negative in the denominator).  Every number
\* the evaluator turns into a fraction is a product of these primes: 9 and
\* the length of a decision list, which is at most 18 (a player holds at
\* most 17 stacks while air lasts).
Primes == {2, 3, 5, 7, 11, 13, 17}

RECURSIVE Exponent(_, _)
\* the exponent of prime p in n >= 1
Exponent(p, n) == IF n % p = 0 THEN 1 + Exponent(p, n \div p) ELSE 0

\* big.NewRat(n, d)
NewRat(n, d) == [p \in Primes |-> Exponent(p, n) - Exponent(p, d)]

\* rp.Mul(a, b)
Mul(a, b) == [p \in Primes |-> a[p] + b[p]]

diceProbability ==
    [v \in MinRoll..MaxRoll |->
        CASE v = 2 -> NewRat(1, 9)
          [] v = 3 -> NewRat(2, 9)
          [] v = 4 -> NewRat(3, 9)
          [] v = 5 -> NewRat(2, 9)
          [] v = 6 -> NewRat(1, 9)]

\* Utilities are float64 sums of multiples of 0.5, which are exact; they are
\* kept in halves.  expectedUtility is 1.5, 5.5, 9.5, 13.5.
expectedUtility ==
    [tt \in TreasureTypeOne..(treasureTypeSentinel - 1) |->
        CASE tt = 1 -> 3
          [] tt = 2 -> 11
          [] tt = 3 -> 19
          [] tt = 4 -> 27]

RECURSIVE sumFrom(_)
\* the loops of sum over the treasures of the stacks, flattened
sumFrom(tl) == IF tl = <<>> THEN 0 ELSE expectedUtility[Head(tl).Type] + sumFrom(Tail(tl))

sum(tsl) == sumFrom(Flatten(tsl))

rawUtility(s, player) == sum(PlayerAt(s, player).StashedTreasure)

\* the value of a call that has returned: by which function, its results
\* (utility, probability, decision map, error), and for the properties the
\* decisions the call applied on its way down and what the state looked
\* like when the call was made
NoRet ==
    [set |-> FALSE, fn |-> "", util |-> 0, prob |-> NewRat(1, 1), dm |-> <<>>,
     err |-> NoErr, path |-> <<>>, at |-> <<>>]

(* ------------------------------ state ---------------------------------- *)
\* air .. history are the fields of standardState; heap is the memory that
\* holds the backing arrays of the held-treasure slices; err is the error
\* returned by the last call; trail records, for every snapshot on the
\* history, the value the state had when the snapshot was taken.  calls is
\* the stack of the evaluator's calls in progress (package eval) and ret the
\* value its last completed call returned.
VARIABLES air, round, stage, curPlayer, players, tiles, history, heap, err, trail,
          calls, ret

vars == <<air, round, stage, curPlayer, players, tiles, history, heap, err, trail,
          calls, ret>>

\* the receiver *ss together with the memory it points into
ss == [air |-> air, round |-> round, stage |-> stage, curPlayer |-> curPlayer,
       players |-> players, tiles |-> tiles, heap |-> heap]


(* ------------------------ values behind pointers ----------------------- *)
\* What a reader of state s sees through its slice headers and pointers in
\* memory h, with n snapshots on the history.
View(s, h, n) ==
    [air       |-> s.air,
     round     |-> s.round,
     stage     |-> s.stage,
     curPlayer |-> s.curPlayer,
     players   |-> [i \in 1..Len(s.players) |->
                      [Position        |-> s.players[i].Position,
                       TurnedAround    |-> s.players[i].TurnedAround,
                       HeldTreasure    |-> Elems(h, s.players[i].HeldTreasure),
                       StashedTreasure |-> s.players[i].StashedTreasure]],
     tiles     |-> [j \in 1..Len(s.tiles) |->
                      [Type  |-> s.tiles[j].Type,
                       Stack |-> Deref(h, s.tiles[j].Treasure)]],
     history   |-> n]

\* the array slots a state can read: those below the length of a slice
\* header and those a tile points at (no slice is ever extended by reslicing)
Slots(s) ==
    UNION ({ {<<s.players[i].HeldTreasure.arr, k>> :
                 k \in 1..s.players[i].HeldTreasure.len} : i \in 1..Len(s.players)}
           \cup { IF s.tiles[j].Treasure.kind = "elem"
                     THEN {<<s.tiles[j].Treasure.arr, s.tiles[j].Treasure.idx + 1>>}
                     ELSE {} : j \in 1..Len(s.tiles)})

\* the arrays a state refers to
Roots(s) ==
    ({s.players[i].HeldTreasure.arr : i \in 1..Len(s.players)}
        \cup {s.tiles[j].Treasure.arr : j \in 1..Len(s.tiles)}) \ {0}

\* Memory as the program can observe it: arrays no live state or snapshot
\* refers to are reclaimed, and a slot no header or pointer reaches reads as
\* the nil stack (it is overwritten by append before any header covers it).
Collect(h, s, hist) ==
    LET live  == Roots(s) \cup UNION {Roots(hist[k]) : k \in 1..Len(hist)}
        slots == Slots(s) \cup UNION {Slots(hist[k]) : k \in 1..Len(hist)}
        top   == IF live = {} THEN 0 ELSE CHOOSE a \in live : \A b \in live : b <= a
    IN  [a \in 1..top |->
            IF a \in live
                THEN [k \in 1..Len(h[a]) |-> IF <<a, k>> \in slots THEN h[a][k] ELSE <<>>]
                ELSE <<>>]

(* ------------------------------- Init ---------------------------------- *)
ShuffleOutcomes ==
    LET all == UNION {Shuffles(getTreasureValues(getTreasureTypes[k])) :
                          k \in 1..Len(getTreasureTypes)}
    IN  {sh \in [1..Len(getTreasureTypes) -> all] :
            \A k \in 1..Len(getTreasureTypes) :
                sh[k] \in Shuffles(getTreasureValues(getTreasureTypes[k]))}

\* the state NewStandardState(n) returns, for some outcome of the shuffle
New(n) ==
    \E sh \in ShuffleOutcomes :
        LET s == NewStandardState(n, sh)
        IN  /\ air = s.air
            /\ round = s.round
            /\ stage = s.stage
            /\ curPlayer = s.curPlayer
            /\ players = s.players
            /\ tiles = s.tiles
            /\ heap = s.heap
            /\ history = <<>>
            /\ err = NoErr
            /\ trail = <<>>
            /\ calls = <<>>
            /\ ret = NoRet

\* a full table
Init == New(MaxPlayers)

\* any table up to the full one
InitPlay == \E n \in 1..MaxPlayers : New(n)

(* ------------------------------ actions -------------------------------- *)
Install(s, hist) ==
    /\ air' = s.air
    /\ round' = s.round
    /\ stage' = s.stage
    /\ curPlayer' = s.curPlayer
    /\ players' = s.players
    /\ tiles' = s.tiles
    /\ heap' = Collect(s.heap, s, hist)

\* the calls that can fail with an error of Do
DoFailed == err \notin {NoErr, ErrEmptyHistory}

\* Do(d) with at most limit snapshots: push a clone, then check and apply the
\* decision.  No caller goes on to issue decisions once Do has returned an
\* error (Game.Run panics; evaluate, montecarlo and do return the error).
DoCall(d, limit) ==
    /\ Len(history) < limit
    /\ ~DoFailed
    /\ LET r == doDecision(ss, d)
       IN  /\ history' = Append(history, clone(ss))
           /\ trail' = Append(trail, View(ss, heap, Len(history)))
           /\ Install(r.s, history')
           /\ err' = r.err

Do(d) == DoCall(d, MaxHistory) /\ UNCHANGED <<calls, ret>>

Play(d) == DoCall(d, MaxPlay) /\ UNCHANGED <<calls, ret>>

\* restore that leaves the stage as it is
restoreKeepStage(snap, h) ==
    [air |-> snap.air, round |-> snap.round, stage |-> stage,
     curPlayer |-> snap.curPlayer, players |-> snap.players,
     tiles |-> snap.tiles, heap |-> h]

\* *ss = *history[len(history)-1]: the fields of the snapshot, over the
\* memory as it is now
restore(snap, h) ==
    [air |-> snap.air, round |-> snap.round, stage |-> snap.stage,
     curPlayer |-> snap.curPlayer, players |-> snap.players,
     tiles |-> snap.tiles, heap |-> h]

UndoCall ==
    IF Len(history) = 0
        THEN /\ err' = ErrEmptyHistory
             /\ UNCHANGED <<air, round, stage, curPlayer, players, tiles, history, heap,
                            trail>>
        ELSE /\ history' = SubSeq(history, 1, Len(history) - 1)
             /\ trail' = SubSeq(trail, 1, Len(trail) - 1)
             /\ Install(restore(Last(history), heap), history')
             /\ err' = NoErr

Undo == UndoCall /\ UNCHANGED <<calls, ret>>

\* exploration: decisions are applied and taken back in any order
Next ==
    \/ \E d \in DecisionInputs : Do(d)
    \/ Undo

Spec == Init /\ [][Next]_vars

\* forward play: decisions are applied one after the other until the game
\* is over
NextPlay == \E d \in DecisionInputs : Play(d)

SpecPlay == InitPlay /\ [][NextPlay]_vars

(* ----------------------- laying out the full board --------------------- *)
\* NewStandardState(n) with all 32 treasure tiles, for n players
InitDeal ==
    \E n \in 1..MaxPlayers : \E sh \in FullDeals :
        LET s == NewStandardState(n, sh)
        IN  /\ air = s.air
            /\ round = s.round
            /\ stage = s.stage
            /\ curPlayer = s.curPlayer
            /\ players = s.players
            /\ tiles = s.tiles
            /\ heap = s.heap
            /\ history = <<>>
            /\ err = NoErr
            /\ trail = <<>>
            /\ calls = <<>>
            /\ ret = NoRet

\* the first decisions on the fresh board
Open(d) == DoCall(d, MaxDeal) /\ UNCHANGED <<calls, ret>>

NextDeal == \E d \in DecisionInputs : Open(d)

SpecDeal == InitDeal /\ [][NextDeal]_vars

(* ---------------------- one round on the full board ------------------- *)
Reverse(sq) == [i \in 1..Len(sq) |-> sq[Len(sq) + 1 - i]]

\* two of the orders the shuffle can leave the eight values of each type in
Deals ==
    {[k \in 1..Len(getTreasureTypes) |-> treasureValues[getTreasureTypes[k]]],
     [k \in 1..Len(getTreasureTypes) |-> Reverse(treasureValues[getTreasureTypes[k]])]}

\* NewStandardState(MaxPlayers) with all 32 treasure tiles
InitDive ==
    \E sh \in Deals :
        LET s == NewStandardState(MaxPlayers, sh)
        IN  /\ air = s.air
            /\ round = s.round
            /\ stage = s.stage
            /\ curPlayer = s.curPlayer
            /\ players = s.players
            /\ tiles = s.tiles
            /\ heap = s.heap
            /\ history = <<>>
            /\ err = NoErr
            /\ trail = <<>>
            /\ calls = <<>>
            /\ ret = NoRet

\* the answers of the strategies and the rolls of the dice in the dive
DiveInputs ==
    {Roll(v) : v \in MinRoll..MaxDiveRoll}
        \cup {PickUp(TRUE), Drop(0, FALSE), Turn(FALSE), Turn(TRUE)}

\* One decision of the first round, the players diving for treasure: every
\* player picks up whatever it lands on and drops nothing; player 0 may turn
\* around when it holds its first stack, otherwise nobody turns around
\* unless the end of the board forces it.
Diving(d) ==
    /\ round = FirstRound
    /\ isValid(ss, d)
    /\ d = Turn(TRUE) =>
           \/ curPlayer = 0 /\ PlayerAt(ss, curPlayer).HeldTreasure.len = 1
           \/ ~isValid(ss, Turn(FALSE))

Dive(d) ==
    /\ Diving(d)
    /\ DoCall(d, MaxDive)
    /\ UNCHANGED <<calls, ret>>

NextDive == \E d \in DiveInputs : Dive(d)

SpecDive == InitDive /\ [][NextDive]_vars

(* ------------------- a crowded game on the full board ------------------ *)
\* NewStandardState(CrowdSize) with all 32 treasure tiles
InitCrowd ==
    LET s == NewStandardState(CrowdSize,
                 [k \in 1..Len(getTreasureTypes) |-> treasureValues[getTreasureTypes[k]]])
    IN  /\ air = s.air
        /\ round = s.round
        /\ stage = s.stage
        /\ curPlayer = s.curPlayer
        /\ players = s.players
        /\ tiles = s.tiles
        /\ heap = s.heap
        /\ history = <<>>
        /\ err = NoErr
        /\ trail = <<>>
        /\ calls = <<>>
        /\ ret = NoRet

\* The answers of the strategies and the rolls of the dice in the crowded
\* game: every player picks up whatever it lands on, drops nothing and
\* turns around as soon as it is asked; the dice show 2 for a player on its
\* way down and 6 for a player on its way back.
Crowding(d) ==
    /\ stage # StageEndOfGame
    /\ d = CASE stage = StageRoll ->
                   IF PlayerAt(ss, curPlayer).TurnedAround
                       THEN Roll(MaxRoll) ELSE Roll(MinRoll)
             [] stage = StagePickUp -> PickUp(TRUE)
             [] stage = StageDrop -> Drop(0, FALSE)
             [] stage = StageTurn -> Turn(TRUE)

Crowd(d) ==
    /\ Crowding(d)
    /\ DoCall(d, MaxCrowd)
    /\ UNCHANGED <<calls, ret>>

NextCrowd == \E d \in DecisionInputs : Crowd(d)

SpecCrowd == InitCrowd /\ [][NextCrowd]_vars

(* --------------------------- the evaluator ----------------------------- *)
\* The calls of package eval in progress, innermost last.  A frame holds the
\* arguments and locals of its call and where the call stands (pc); `at` is
\* what the state looked like when the call was made.
Top == calls[Len(calls)]
Caller == SubSeq(calls, 1, Len(calls) - 1)
SetTop(f) == Append(Caller, f)

\* The float64 values of the decision maps are followed in the searches
\* started with the mark `valued`, and only there; elsewhere a map keeps its
\* keys and where each value came from.
Valued == calls # <<>> /\ calls[1].valued

\* the value v, where followed
Kept(v) == IF Valued THEN v ELSE 0

\* "negative infinity" and "positive infinity", in halves
Infinity == 2 * 999999

evaluateFrame(player, depth, lastRound) ==
    [fn |-> "evaluate", pc |-> "entry", player |-> player, depth |-> depth,
     lastRound |-> lastRound, vdl |-> <<>>, i |-> 1, dm |-> <<>>, at |-> <<>>,
     valued |-> FALSE]

EstimateFrame(player, iterations, lastRound) ==
    [fn |-> "Estimate", pc |-> "entry", player |-> player, iterations |-> iterations,
     lastRound |-> lastRound, i |-> 0, ul |-> <<>>, pl |-> <<>>, at |-> <<>>]

montecarloFrame(player) ==
    [fn |-> "montecarlo", pc |-> "entry", player |-> player, vd |-> Turn(FALSE),
     prob |-> NewRat(1, 1), at |-> <<>>]

\* the results a call hands to its caller
Return(fn, util, prob, dm, e, path, at) ==
    [set |-> TRUE, fn |-> fn, util |-> util, prob |-> prob, dm |-> dm,
     err |-> e, path |-> path, at |-> at]

\* return nil/0 and the error e
Fail(fn, e, at) == Return(fn, 0, NewRat(1, 1), <<>>, e, <<>>, at)

\* the state fields and the history stay as they are
Untouched ==
    UNCHANGED <<air, round, stage, curPlayer, players, tiles, history, heap, err, trail>>

\* what a reader sees of the state now (fields, values behind pointers,
\* length of the history)
Seen == View(ss, heap, Len(history))

\* an assignment that forgets the other keys
assignAlone(dm, vd, best) == <<[vd |-> vd, best |-> best]>>

\* dm[vd] = best.  A decision map is kept as the list of its keys in the
\* order they were first assigned; a value is kept with its origin (the
\* estimate of the state after the decision, or the best of the values of
\* the decisions that follow it).
assign(dm, vd, best) ==
    IF \E k \in 1..Len(dm) : dm[k].vd = vd
        THEN [k \in 1..Len(dm) |-> IF dm[k].vd = vd THEN [vd |-> vd, best |-> best] ELSE dm[k]]
        ELSE Append(dm, [vd |-> vd, best |-> best])

\* Estimate, when the game or the horizon has ended: the value returned at
\* once
EstimateNow(s, player, lastRound) ==
    IF s.round >= lastRound \/ s.stage = StageEndOfGame
        THEN [done |-> TRUE, util |-> rawUtility(s, player)]
        ELSE [done |-> FALSE, util |-> 0]

\* the weighted average Estimate returns: sum of (pl[i] / psum) * ul[i].  A
\* single playout has weight psum / psum = 1 and the average is its utility;
\* the average of several is kept as the list of weights and utilities.
usum(ul, pl) ==
    IF Len(ul) = 1 THEN ul[1]
    ELSE [k \in 1..Len(ul) |-> [weight |-> pl[k], util |-> ul[k]]]

\* the two draws rand.Intn(3) of one roll of the dice
Draws == 0..2

\* dice that start at 1
rollFromOne(a, b) == 1 + a + b

\* roll() when the two draws come out as a and b
roll(a, b) == 2 + a + b

\* Game.Run at stage Roll when the draws come out as a and b: the Do call,
\* and the panic on its error
runRoll(s, a, b) ==
    LET r == doDecision(s, Roll(roll(a, b)))
    IN  [s |-> r.s, err |-> r.err, panic |-> r.err # NoErr]

\* Game.Run at stage Drop when Strategy.Drop answers (i, d): the Do call, and
\* the panic on its error
runDrop(s, i, d) ==
    LET r == doDecision(s, Drop(i, d))
    IN  [s |-> r.s, err |-> r.err, panic |-> r.err # NoErr]

\* the decisions the search is let to take at random
SearchInputs ==
    {d \in DecisionInputs : d.action = "Roll" => d.value \in {MinRoll, MaxRoll}}

\* the decisions a search whose values are followed is let to take at random
BestInputs ==
    {Roll(MinRoll), Roll(MaxRoll), PickUp(TRUE), Drop(0, FALSE), Turn(TRUE)}

\* the outcomes of rand.Intn(len(vdl)) followed here
Intn(vdl) ==
    {k \in 0..(Len(vdl) - 1) :
        vdl[k + 1] \in (IF Valued THEN BestInputs ELSE SearchInputs)}

\* the number of snapshots a search is followed to
Limit == IF Valued THEN MaxBest ELSE MaxSearch

\* the largest and the smallest of a non-empty set of numbers
Largest(S) == CHOOSE x \in S : \A y \in S : y <= x
Smallest(S) == CHOOSE x \in S : \A y \in S : x <= y

\* the best of the child values always taken as their maximum
bestOfMax(cdm, cp, player) ==
    Largest({cdm[k].best.val : k \in 1..Len(cdm)} \cup {-Infinity})

\* the best of the child values cdm of a state in which cp is to act: the
\* largest for the evaluated player, the smallest for any other
bestOf(cdm, cp, player) ==
    IF cp = player
        THEN Largest({cdm[k].best.val : k \in 1..Len(cdm)} \cup {-Infinity})
        ELSE Smallest({cdm[k].best.val : k \in 1..Len(cdm)} \cup {Infinity})

\* The game played before Evaluate is called: the only player goes two
\* tiles down and comes back empty-handed in rounds 1 and 2, and in round 3
\* picks up the stacks of tiles 2 and 3.
Opening ==
    <<Roll(2), PickUp(FALSE), Turn(TRUE), Roll(2),
      Roll(2), PickUp(FALSE), Turn(TRUE), Roll(2),
      Roll(2), PickUp(TRUE), Turn(FALSE), Roll(2), PickUp(TRUE)>>

\* the next decision of the game played before Evaluate is called
EvalPlay(d) ==
    /\ calls = <<>>
    /\ ~ret.set
    /\ Len(history) < Len(Opening)
    /\ d = Opening[Len(history) + 1]
    /\ DoCall(d, Len(Opening))
    /\ UNCHANGED <<calls, ret>>

\* Evaluate(s, depth)
EvaluateCall(depth) ==
    /\ calls = <<>>
    /\ ~ret.set
    /\ ~DoFailed
    /\ Len(history) >= EvalFrom
    /\ calls' = <<evaluateFrame(curPlayer, depth, round + 1)>>
    /\ ret' = ret
    /\ Untouched

\* evaluate, up to the decision list
evaluateEntry ==
    /\ calls # <<>>
    /\ Top.fn = "evaluate" /\ Top.pc = "entry"
    /\ IF Top.depth <= 0 \/ round >= Top.lastRound \/ ValidDecisions(ss) = <<>>
           THEN /\ calls' = Caller
                /\ ret' = Return("evaluate", 0, NewRat(1, 1), <<>>, NoErr, <<>>, Seen)
           ELSE /\ calls' = SetTop([Top EXCEPT !.pc = "loop", !.vdl = ValidDecisions(ss),
                                               !.at = Seen])
                /\ ret' = ret
    /\ Untouched

\* evaluate: Do the next decision and search the state it leads to
evaluateDo ==
    /\ calls # <<>>
    /\ Top.fn = "evaluate" /\ Top.pc = "loop"
    /\ Top.i <= Len(Top.vdl)
    /\ DoCall(Top.vdl[Top.i], Limit)
    /\ IF err' # NoErr
           THEN /\ calls' = Caller
                /\ ret' = Fail("evaluate", err', Top.at)
           ELSE /\ calls' = Append(SetTop([Top EXCEPT !.pc = "child"]),
                                   [evaluateFrame(Top.player, Top.depth - 1, Top.lastRound)
                                       EXCEPT !.valued = Top.valued])
                /\ ret' = ret

\* Undo after dm[vd] = best, then on to the next decision
evaluateNext(best) ==
    /\ UndoCall
    /\ IF err' # NoErr
           THEN /\ calls' = Caller
                /\ ret' = Fail("evaluate", err', Top.at)
           ELSE /\ calls' = SetTop([Top EXCEPT !.pc = "loop", !.i = @ + 1,
                                               !.dm = assign(@, Top.vdl[Top.i], best)])
                /\ ret' = NoRet

\* evaluate: the child values have come back
evaluateChild ==
    /\ calls # <<>>
    /\ Top.fn = "evaluate" /\ Top.pc = "child"
    /\ ret.set
    /\ IF ret.err # NoErr
           THEN /\ calls' = Caller
                /\ ret' = Fail("evaluate", ret.err, Top.at)
                /\ Untouched
           ELSE IF Len(ret.dm) = 0
               THEN /\ calls' = Append(SetTop([Top EXCEPT !.pc = "estimate"]),
                                       EstimateFrame(Top.player, estimateIterations,
                                                     Top.lastRound))
                    /\ ret' = NoRet
                    /\ Untouched
               ELSE evaluateNext([from |-> "children",
                                  val |-> Kept(bestOf(ret.dm, curPlayer, Top.player))])

\* evaluate: the estimate has come back
evaluateEstimated ==
    /\ calls # <<>>
    /\ Top.fn = "evaluate" /\ Top.pc = "estimate"
    /\ ret.set
    /\ IF ret.err # NoErr
           THEN /\ calls' = Caller
                /\ ret' = Fail("evaluate", ret.err, Top.at)
                /\ Untouched
           ELSE evaluateNext([from |-> "Estimate", val |-> Kept(ret.util)])

\* evaluate: every decision has its value
evaluateReturn ==
    /\ calls # <<>>
    /\ Top.fn = "evaluate" /\ Top.pc = "loop"
    /\ Top.i > Len(Top.vdl)
    /\ calls' = Caller
    /\ ret' = Return("evaluate", 0, NewRat(1, 1), Top.dm, NoErr, <<>>, Top.at)
    /\ Untouched

\* Estimate, up to the playouts
EstimateEntry ==
    /\ calls # <<>>
    /\ Top.fn = "Estimate" /\ Top.pc = "entry"
    /\ IF EstimateNow(ss, Top.player, Top.lastRound).done
           THEN /\ calls' = Caller
                /\ ret' = Return("Estimate", EstimateNow(ss, Top.player, Top.lastRound).util,
                                  NewRat(1, 1), <<>>, NoErr, <<>>, Seen)
           ELSE /\ calls' = SetTop([Top EXCEPT !.pc = "loop", !.at = Seen])
                /\ ret' = ret
    /\ Untouched

\* Estimate: the next playout
EstimatePlayout ==
    /\ calls # <<>>
    /\ Top.fn = "Estimate" /\ Top.pc = "loop"
    /\ Top.i < Top.iterations
    /\ calls' = Append(SetTop([Top EXCEPT !.pc = "playout"]), montecarloFrame(Top.player))
    /\ ret' = ret
    /\ Untouched

\* Estimate: a playout has come back
EstimateCollect ==
    /\ calls # <<>>
    /\ Top.fn = "Estimate" /\ Top.pc = "playout"
    /\ ret.set
    /\ IF ret.err # NoErr
           THEN /\ calls' = Caller
                /\ ret' = Fail("Estimate", ret.err, Top.at)
           ELSE /\ calls' = SetTop([Top EXCEPT !.pc = "loop", !.i = @ + 1,
                                               !.ul = Append(@, ret.util),
                                               !.pl = Append(@, ret.prob)])
                /\ ret' = NoRet
    /\ Untouched

\* Estimate: the weighted average of the playouts
EstimateReturn ==
    /\ calls # <<>>
    /\ Top.fn = "Estimate" /\ Top.pc = "loop"
    /\ Top.i >= Top.iterations
    /\ calls' = Caller
    /\ ret' = Return("Estimate", usum(Top.ul, Top.pl), NewRat(1, 1), <<>>, NoErr, <<>>,
                      Top.at)
    /\ Untouched

\* montecarlo on a finished game
montecarloOver ==
    /\ calls # <<>>
    /\ Top.fn = "montecarlo" /\ Top.pc = "entry"
    /\ stage = StageEndOfGame
    /\ calls' = Caller
    /\ ret' = Return("montecarlo", rawUtility(ss, Top.player), NewRat(1, 1), <<>>, NoErr,
                      <<>>, Seen)
    /\ Untouched

\* montecarlo: Do a decision picked at random and play on
montecarloDo ==
    /\ calls # <<>>
    /\ Top.fn = "montecarlo" /\ Top.pc = "entry"
    /\ stage # StageEndOfGame
    /\ \E k \in Intn(ValidDecisions(ss)) :
           LET vdl  == ValidDecisions(ss)
               vd   == vdl[k + 1]
               prob == IF stage = StageRoll
                           THEN diceProbability[vd.value]
                           ELSE NewRat(1, Len(vdl))
           IN  /\ DoCall(vd, Limit)
               /\ IF err' # NoErr
                      THEN /\ calls' = Caller
                           /\ ret' = Fail("montecarlo", err', Seen)
                      ELSE /\ calls' = Append(SetTop([Top EXCEPT !.pc = "child", !.vd = vd,
                                                                 !.prob = prob, !.at = Seen]),
                                              montecarloFrame(Top.player))
                           /\ ret' = ret

\* montecarlo: the rest of the playout has come back
montecarloReturn ==
    /\ calls # <<>>
    /\ Top.fn = "montecarlo" /\ Top.pc = "child"
    /\ ret.set
    /\ IF ret.err # NoErr
           THEN /\ calls' = Caller
                /\ ret' = Fail("montecarlo", ret.err, Top.at)
                /\ Untouched
           ELSE /\ UndoCall
                /\ calls' = Caller
                /\ ret' = IF err' # NoErr
                              THEN Fail("montecarlo", err', Top.at)
                              ELSE Return("montecarlo", ret.util, Mul(Top.prob, ret.prob),
                                          <<>>, NoErr, <<Top.vd>> \o ret.path, Top.at)

\* The game of two played before an Evaluate whose values are followed:
\* in rounds 1 and 2 both players go down and come back empty-handed; in
\* round 3 player 0 goes down again.
OpeningOfTwo ==
    <<Roll(2), PickUp(FALSE), Roll(2), PickUp(FALSE),
      Turn(TRUE), Roll(2), Turn(TRUE), Roll(3),
      Roll(2), PickUp(FALSE), Roll(2), PickUp(FALSE),
      Turn(TRUE), Roll(2), Turn(TRUE), Roll(3),
      Roll(2)>>

\* the next decision of that game
BestPlay(d) ==
    /\ calls = <<>>
    /\ ~ret.set
    /\ Len(history) < Len(OpeningOfTwo)
    /\ d = OpeningOfTwo[Len(history) + 1]
    /\ DoCall(d, Len(OpeningOfTwo))
    /\ UNCHANGED <<calls, ret>>

\* Evaluate(s, depth), its values followed
EvaluateValued(depth) ==
    /\ calls = <<>>
    /\ ~ret.set
    /\ ~DoFailed
    /\ Len(history) >= BestFrom
    /\ calls' = <<[evaluateFrame(curPlayer, depth, round + 1) EXCEPT !.valued = TRUE]>>
    /\ ret' = ret
    /\ Untouched

InitEval == New(1)

NextEval ==
    \/ \E d \in DecisionInputs : EvalPlay(d)
    \/ \E depth \in 1..MaxDepth : EvaluateCall(depth)
    \/ evaluateEntry
    \/ evaluateDo
    \/ evaluateChild
    \/ evaluateEstimated
    \/ evaluateReturn
    \/ EstimateEntry
    \/ EstimatePlayout
    \/ EstimateCollect
    \/ EstimateReturn
    \/ montecarloOver
    \/ montecarloDo
    \/ montecarloReturn

SpecEval == InitEval /\ [][NextEval]_vars

InitBest == New(2)

NextBest ==
    \/ \E d \in DecisionInputs : BestPlay(d)
    \/ \E depth \in 1..MaxDepth : EvaluateValued(depth)
    \/ evaluateEntry
    \/ evaluateDo
    \/ evaluateChild
    \/ evaluateEstimated
    \/ evaluateReturn
    \/ EstimateEntry
    \/ EstimatePlayout
    \/ EstimateCollect
    \/ EstimateReturn
    \/ montecarloOver
    \/ montecarloDo
    \/ montecarloReturn

SpecBest == InitBest /\ [][NextBest]_vars

(* ======================= properties of Do and Undo ===================== *)
\* the state fields of standardState other than the history
fields == <<air, round, stage, curPlayer, players, tiles>>

\* what a reader sees of the live state
Now == View(ss, heap, Len(history))

\* what a reader would see after undoing down to snapshot j
Undone(j) == View(restore(history[j], heap), heap, j - 1)

\* a step that is a call of Undo (every call of Do pushes one snapshot)
UndoStep == Len(history') # Len(history) + 1

\* C1: Do followed by Undo restores a state equal in every field to the one
\* before Do, and k Do calls followed by k Undo calls restore the starting
\* state: undoing down to any snapshot on the history yields the state as it
\* was when that snapshot was taken.
C1_RoundTrip == \A j \in 1..Len(history) : Undone(j) = trail[j]

\* C2: a Do call that returns an error leaves the state exactly as it was:
\* no field changes and no snapshot is added to the undo history.
C2_FailedDoLeavesState ==
    [][(~UndoStep /\ err' # NoErr) => (UNCHANGED fields /\ history' = history)]_vars

\* C3: Undo returns an error iff the history is empty and then changes
\* nothing; otherwise the state becomes the most recently pushed snapshot
\* and the history is one snapshot shorter.
C3_Undo ==
    [][UndoStep =>
        IF history = <<>>
            THEN err' = ErrEmptyHistory /\ UNCHANGED fields /\ history' = history
            ELSE /\ err' = NoErr
                 /\ history' = Front(history)
                 /\ fields' = <<Last(history).air, Last(history).round,
                                Last(history).stage, Last(history).curPlayer,
                                Last(history).players, Last(history).tiles>>]_vars

\* C3 witness: Undo has failed on an empty history, after an Undo that
\* popped a snapshot (a successful Undo leaves the error nil)
C3_Witness == err = ErrEmptyHistory /\ history = <<>>

(* ===================== properties of the decisions ===================== *)
\* the player to act, its held stacks as a reader sees them, its tile
cp == PlayerAt(ss, curPlayer)
held(s, p) == Elems(s.heap, PlayerAt(s, p).HeldTreasure)
tileViews(s) == View(s, s.heap, 0).tiles
playerViews(s) == View(s, s.heap, 0).players

\* the state before the Do call that produced the live state
Prev == Last(trail)

\* C4: ValidDecisions() is non-empty iff the stage is not EndOfGame.
C4_DecisionsUnlessOver == (ValidDecisions(ss) # <<>>) <=> (stage # StageEndOfGame)

\* C4 witness: the game has been played to its end
C4_Witness == stage = StageEndOfGame /\ round > FinalRound /\ ValidDecisions(ss) = <<>>

\* C5: Do returns no error for any decision of ValidDecisions(), in every
\* state reached through Do and Undo; the only errors Do ever returns are
\* those of the validity check.
C5_LegalDecisionsSucceed ==
    /\ \A i \in 1..Len(ValidDecisions(ss)) :
           doDecision(ss, ValidDecisions(ss)[i]).err = NoErr
    /\ err \in {NoErr, ErrInvalidDecision, ErrEmptyHistory}

\* C5 witness: the pickup and drop checks are exercised: a player holding
\* two stacks is asked which one to drop
C5_Witness == stage = StageDrop /\ cp.HeldTreasure.len >= 2 /\ err = NoErr

\* C6: every position is a tile index and no two players share a tile other
\* than the submarine.
C6_Positions ==
    /\ \A i \in 1..Len(players) :
           players[i].Position >= 0 /\ players[i].Position < Len(tiles)
    /\ \A i, j \in 1..Len(players) :
           (i # j /\ players[i].Position = players[j].Position)
               => players[i].Position = 0

\* C6 witness: a player has moved to the tile right behind another one
C6_Witness ==
    \E i, j \in 1..Len(players) :
        players[i].Position > 0 /\ players[j].Position = players[i].Position + 1

\* The tiles ahead of player p in its direction of travel that no other
\* player stands on (the submarine never counts as occupied).
FreeAhead(s, p) ==
    LET me  == PlayerAt(s, p)
        dir == IF me.TurnedAround THEN -1 ELSE 1
        others == {PlayerAt(s, q).Position : q \in (0..(Len(s.players) - 1)) \ {p}} \ {0}
    IN  {t \in 0..(Len(s.tiles) - 1) : (t - me.Position) * dir > 0 /\ t \notin others}

\* The k-th tile of FreeAhead counted from the player, the last one if there
\* are fewer than k, the player's own tile if there is none or k = 0.
Landing(s, p, k) ==
    LET me   == PlayerAt(s, p)
        dir  == IF me.TurnedAround THEN -1 ELSE 1
        free == FreeAhead(s, p)
        m    == Min(k, Cardinality(free))
    IN  IF m = 0 THEN me.Position
        ELSE CHOOSE t \in free :
                 Cardinality({u \in free : (u - me.Position) * dir <= (t - me.Position) * dir}) = m

\* C7: move(p, k) puts p on the k-th tile in its direction of travel that no
\* other player occupies (the last such tile if there are fewer than k, its
\* own tile if there is none) and changes nothing else.
C7_Move ==
    \A p \in 0..(Len(players) - 1) : \A k \in 0..MaxRoll :
        /\ move(ss, p, k).err = NoErr
        /\ move(ss, p, k).s = [ss EXCEPT !.players[p + 1].Position = Landing(ss, p, k)]

\* C7 witness: a roll has carried a player over a tile another player is on
C7_Witness ==
    /\ trail # <<>>
    /\ Prev.stage = StageRoll
    /\ Prev.round = round
    /\ \E i, j \in 1..Len(players) :
           /\ i # j
           /\ Prev.players[i].Position < players[j].Position
           /\ players[j].Position < players[i].Position
           /\ Prev.players[j].Position = players[j].Position

\* the effect of the drop call of Do at stage Drop, before the turn advances
dropStep(s, d) == IF d.yes THEN drop(s, s.curPlayer, d.value) ELSE Result(s, NoErr)

\* C8: at stage Drop, Drop(i, true) moves exactly the stack at index i from
\* the held list onto the player's tile (the tile holds that stack, the held
\* list is the previous one without element i); Drop(0, false) leaves held
\* treasure and tiles unchanged.
C8_Drop ==
    stage = StageDrop =>
        /\ \A i \in 0..(cp.HeldTreasure.len - 1) :
               LET r      == dropStep(ss, Drop(i, TRUE))
                   before == held(ss, curPlayer)
                   t      == TileAt(r.s, cp.Position)
               IN  /\ r.err = NoErr
                   /\ t.Type = TileTypeTreasure
                   /\ Deref(r.s.heap, t.Treasure) = before[i + 1]
                   /\ held(r.s, curPlayer) =
                          SubSeq(before, 1, i) \o SubSeq(before, i + 2, Len(before))
        /\ LET r == dropStep(ss, Drop(0, FALSE))
           IN  /\ r.err = NoErr
               /\ playerViews(r.s) = playerViews(ss)
               /\ tileViews(r.s) = tileViews(ss)

\* C9: at stage PickUp, PickUp(true) appends the stack on the player's tile
\* to the end of its held list and leaves the tile Empty with no stack (this
\* is the state the turn advance starts from, and the state after Do unless
\* the advance ends the round); PickUp(false) leaves tiles and held treasure
\* unchanged; pickup on a tile that is not a Treasure tile is an error that
\* changes nothing.
C9_PickUp ==
    /\ stage = StagePickUp =>
           LET r      == pickup(ss, curPlayer)
               after  == doDecision(ss, PickUp(TRUE))
               skip   == doDecision(ss, PickUp(FALSE))
               taken  == Append(held(ss, curPlayer),
                                Deref(heap, TileAt(ss, cp.Position).Treasure))
           IN  /\ r.err = NoErr
               /\ held(r.s, curPlayer) = taken
               /\ TileAt(r.s, cp.Position) = Tile(TileTypeEmpty, NilPtr)
               /\ after.err = NoErr
               /\ after.s.round = round =>
                      /\ held(after.s, curPlayer) = taken
                      /\ TileAt(after.s, cp.Position) = Tile(TileTypeEmpty, NilPtr)
               /\ skip.err = NoErr
               /\ skip.s.round = round =>
                      /\ tileViews(skip.s) = tileViews(ss)
                      /\ playerViews(skip.s) = playerViews(ss)
    /\ \A p \in 0..(Len(players) - 1) :
           TileAt(ss, PlayerAt(ss, p).Position).Type # TileTypeTreasure =>
               pickup(ss, p) = Result(ss, ErrNotTreasure)

\* C9 witness: PickUp(true) has been done: the player who was asked holds
\* one more stack and its tile is Empty
C9_Witness ==
    /\ trail # <<>>
    /\ Prev.stage = StagePickUp
    /\ Prev.round = round
    /\ err = NoErr
    /\ \E i \in 1..Len(players) :
           /\ i = Prev.curPlayer + 1
           /\ players[i].HeldTreasure.len = Len(Prev.players[i].HeldTreasure) + 1
           /\ Prev.players[i].HeldTreasure # <<>>
           /\ tiles[players[i].Position + 1].Type = TileTypeEmpty

\* C10: at stage Roll, Roll(v) by a player holding h stacks sets air to
\* max(0, air - h) and moves the player max(0, v - h) steps; held and stashed
\* treasure and the tiles are unchanged by the roll (this is the state the
\* pick-up/drop/advance choice starts from, and the state after Do unless
\* the turn advance ends the round).
C10_Roll ==
    stage = StageRoll =>
        \A v \in MinRoll..MaxRoll :
            LET h     == cp.HeldTreasure.len
                r     == rollMove(ss, Roll(v))
                after == doDecision(ss, Roll(v))
                want  == [ss EXCEPT !.air = Max(0, air - h),
                                    !.players[curPlayer + 1].Position =
                                        Landing(ss, curPlayer, Max(0, v - h))]
            IN  /\ r = Result(want, NoErr)
                /\ after.err = NoErr
                /\ after.s.round = round =>
                       /\ after.s.air = want.air
                       /\ playerViews(after.s) = playerViews(want)
                       /\ tileViews(after.s) = tileViews(want)

\* C10 witness: a player holding more stacks than it rolled has rolled: it
\* stayed where it was and the air went down by the number of stacks
C10_Witness ==
    /\ trail # <<>>
    /\ Prev.stage = StageRoll
    /\ Prev.round = round
    /\ err = NoErr
    /\ \E i \in 1..Len(players) :
           /\ i = Prev.curPlayer + 1
           /\ Len(Prev.players[i].HeldTreasure) >= 3
           /\ air = Prev.air - Len(Prev.players[i].HeldTreasure)
           /\ players[i].Position = Prev.players[i].Position

(* ==================== properties of rounds and of air ================== *)
\* the last Do succeeded and ran a round-end resolution
RoundEnded == trail # <<>> /\ err = NoErr /\ round # Prev.round

\* nobody had turned around before the last Do
NobodyTurned == \A i \in 1..Len(Prev.players) : ~Prev.players[i].TurnedAround

\* what a round-end resolution that started in round `before` leaves in s
Resolved(s, before) ==
    /\ s.round = before + 1
    /\ s.air = 25
    /\ s.curPlayer = 0
    /\ \A i \in 1..Len(s.players) :
           /\ s.players[i].Position = 0
           /\ s.players[i].TurnedAround = FALSE
           /\ Elems(s.heap, s.players[i].HeldTreasure) = <<>>

\* the dive can take another step (every step makes the history longer, so
\* a dive that can always go on while in round 1 gets out of round 1)
DiveGoesOn ==
    /\ Len(history) < MaxDive
    /\ ~DoFailed
    /\ \E d \in DiveInputs : Diving(d)

Lost(s) ==
    Flatten([i \in 1..Len(s.players) |->
        IF s.players[i].Position # 0 THEN Flatten(held(s, i - 1)) ELSE <<>>])

\* the stacks of the tiles endRound(s) appends after the tiles it keeps
Appended(s) ==
    LET kept == SelectSeq(tileViews(s), LAMBDA t : t.Type # TileTypeEmpty)
        now  == tileViews(endRound(s).s)
    IN  [k \in 1..(Len(now) - Len(kept)) |-> now[Len(kept) + k]]

\* C12: at a round-end resolution a player on the submarine has its held
\* stacks appended to its stash in order, a player elsewhere gains nothing;
\* the Empty tiles are removed and the other tiles keep their order; the lost
\* treasures are appended as Treasure tiles in stacks of exactly 3 with one
\* shorter last stack if their number is no multiple of 3 (ceil(n/3) tiles).
C12_RoundEndTreasure ==
    LET r    == endRound(ss).s
        kept == SelectSeq(tileViews(ss), LAMBDA t : t.Type # TileTypeEmpty)
        new  == Appended(ss)
        n    == Len(Lost(ss))
    IN  /\ \A i \in 1..Len(players) :
               r.players[i].StashedTreasure =
                   IF players[i].Position = 0
                       THEN players[i].StashedTreasure \o held(ss, i - 1)
                       ELSE players[i].StashedTreasure
        /\ SubSeq(tileViews(r), 1, Len(kept)) = kept
        /\ Len(tileViews(r)) = Len(kept) + Len(new)
        /\ Len(new) = (n + 2) \div 3
        /\ \A k \in 1..Len(new) :
               /\ new[k].Type = TileTypeTreasure
               /\ Len(new[k].Stack) = IF k < Len(new) THEN 3 ELSE n - 3 * (Len(new) - 1)
        /\ Flatten([k \in 1..Len(new) |-> new[k].Stack]) = Lost(ss)
        /\ RoundEnded =>
               /\ \A j \in 1..Len(tiles) : tiles[j].Type # TileTypeEmpty
               /\ \A i \in 1..Len(players) :
                      Len(players[i].StashedTreasure) >= Len(Prev.players[i].StashedTreasure)

\* C12 witness: a round has ended with a player home whose held stacks
\* are now its stash, the stacks of a lost player are back on the board as a
\* stack of 3, and the board has lost its Empty tiles
C12_Witness ==
    /\ RoundEnded
    /\ \E i \in 1..Len(players) :
           /\ Len(players[i].StashedTreasure) >= 2
           /\ players[i].StashedTreasure = Prev.players[i].HeldTreasure
    /\ Len(Deref(heap, tiles[Len(tiles)].Treasure)) = 3
    /\ Len(tiles) < Len(Prev.tiles)

\* C13: 1 <= round <= 4 and stage = EndOfGame iff round > 3; a successful
\* Do leaves round as it is or, running a round-end resolution, increases it
\* by exactly one; at EndOfGame no Do succeeds.
C13_Rounds ==
    /\ round >= 1 /\ round <= 4
    /\ (stage = StageEndOfGame) <=> (round > 3)
    /\ (trail # <<>> /\ err = NoErr) =>
           \/ round = Prev.round
           \/ round = Prev.round + 1 /\ Resolved(ss, Prev.round)
    /\ (trail # <<>> /\ err # NoErr) => round = Prev.round
    /\ stage = StageEndOfGame =>
           \A d \in DecisionInputs : doDecision(ss, d).err # NoErr

\* C13 witness: the third round-end resolution has ended the game
C13_Witness == RoundEnded /\ Prev.round = 3 /\ round = 4 /\ stage = StageEndOfGame

\* C14: 0 <= air <= 25; a successful Do never increases air except by the
\* reset to 25 of a round-end resolution.
C14_Air ==
    /\ air >= 0 /\ air <= 25
    /\ (trail # <<>> /\ err = NoErr) =>
           \/ air <= Prev.air
           \/ air = 25 /\ RoundEnded
    /\ stage = StageRoll =>
           \A v \in MinRoll..MaxRoll :
               /\ rollMove(ss, Roll(v)).s.air >= 0
               /\ rollMove(ss, Roll(v)).s.air <= air

\* C14 witness: a roll by a player holding more stacks than there was air
\* left has brought the air to 0
C14_Witness ==
    /\ trail # <<>>
    /\ err = NoErr
    /\ Prev.stage = StageRoll
    /\ Prev.round = round
    /\ Prev.air > 0
    /\ Prev.air < Len(Prev.players[Prev.curPlayer + 1].HeldTreasure)
    /\ air = 0

(* ===================== properties of the evaluator ===================== *)
\* twice the sum of the Value fields of the treasures of a player's stash
StashValue(s, player) ==
    LET tl == Flatten(PlayerAt(s, player).StashedTreasure)
        RECURSIVE total(_)
        total(k) == IF k = 0 THEN 0 ELSE 2 * tl[k].Value + total(k - 1)
    IN  total(Len(tl))

\* C15: on a game that has ended Estimate returns at once (whatever the
\* number of iterations, without any Do) the exact sum of the values of the
\* treasures the player has stashed.
C15_EstimateEnded ==
    stage = StageEndOfGame =>
        \A p \in 0..(Len(players) - 1) : \A lastRound \in 1..4 :
            /\ EstimateNow(ss, p, lastRound).done
            /\ EstimateNow(ss, p, lastRound).util = StashValue(ss, p)

\* the arguments of the search in progress and the length the history had
\* when it was called
Root == calls[1]
Searching == calls # <<>> /\ Root.pc # "entry"

\* C16: no decision is applied during Evaluate to a state whose round is at
\* or past lastRound (the round after the one in progress at the call), in
\* the exhaustive phase and in the playouts alike.
C16_Horizon ==
    Searching =>
        \A j \in (Root.at.history + 1)..Len(trail) : trail[j].round < Root.lastRound

\* the tag the specification gives a decision: the probability of the dice
\* for a roll, 1 for a choice of the player
Tag(d) == IF d.action = "Roll" THEN diceProbability[d.value] ELSE NewRat(1, 1)

RECURSIVE Product(_)
Product(path) == IF path = <<>> THEN NewRat(1, 1) ELSE Mul(Tag(Head(path)), Product(Tail(path)))

\* C17: the probability a playout returns is the product of the tags of the
\* decisions on its path: 1/9, 2/9, 3/9, 2/9, 1/9 for a roll of 2..6, and 1
\* for every decision taken at another stage.
C17_PlayoutProbability ==
    (ret.set /\ ret.fn = "montecarlo" /\ ret.err = NoErr) => ret.prob = Product(ret.path)

\* Evaluate has returned
Evaluated == calls = <<>> /\ ret.set

\* C18: Evaluate on a state whose game is not over, with a depth of at least
\* 1, returns no error and a map with one entry for each of ValidDecisions()
\* and no other; no call made on the way returns an error.
C18_EvaluateKeys ==
    /\ ret.err = NoErr
    /\ err = NoErr
    /\ (Evaluated /\ stage # StageEndOfGame) =>
           /\ Len(ret.dm) = Len(ValidDecisions(ss))
           /\ {ret.dm[k].vd : k \in 1..Len(ret.dm)} =
                  {ValidDecisions(ss)[k] : k \in 1..Len(ValidDecisions(ss))}

\* C18 witness: Evaluate has returned the map of a state at stage Roll, the
\* value of each roll estimated by playouts to the end of the game
C18_Witness ==
    /\ Evaluated
    /\ stage = StageRoll
    /\ Len(ret.dm) = 5
    /\ \A k \in 1..Len(ret.dm) : ret.dm[k].best.from = "Estimate"

\* C19: when Evaluate, Estimate or montecarlo returns without error the
\* state is equal in every field, the length of the history included, to the
\* state the call was made on.
C19_SearchRestores == (ret.set /\ ret.err = NoErr) => ret.at = Seen

\* C20: at stage Drop, when Strategy.Drop answers true with an index that is
\* no index of the current player's held treasure, Game.Run neither fails
\* nor panics and changes no tile and no held treasure.
C20_InvalidDropIgnored ==
    stage = StageDrop =>
        \A i \in cp.HeldTreasure.len..(cp.HeldTreasure.len + 1) :
            /\ ~runDrop(ss, i, TRUE).panic
            /\ tileViews(runDrop(ss, i, TRUE).s) = tileViews(ss)
            /\ playerViews(runDrop(ss, i, TRUE).s) = playerViews(ss)

(* ======================= properties of the dice ======================== *)
\* the integer a rational with no prime left in its denominator stands for
RECURSIVE PowerOf(_, _)
PowerOf(p, e) == IF e <= 0 THEN 1 ELSE p * PowerOf(p, e - 1)

RECURSIVE ToIntOver(_, _)
ToIntOver(r, ps) ==
    IF ps = {} THEN 1
    ELSE LET p == CHOOSE q \in ps : TRUE
         IN  PowerOf(p, r[p]) * ToIntOver(r, ps \ {p})

IsInt(r) == \A p \in Primes : r[p] >= 0
ToInt(r) == ToIntOver(r, Primes)

\* the number of outcomes of the two draws that make the roll v
Ways(v) == Cardinality({w \in Draws \X Draws : roll(w[1], w[2]) = v})

RECURSIVE Ninths(_)
\* nine times the sum of the entries 2..v of the table
Ninths(v) ==
    IF v < MinRoll THEN 0
    ELSE ToInt(Mul(diceProbability[v], NewRat(9, 1))) + Ninths(v - 1)

\* C21: the roll of the driver is always one of 2..6 and a valid decision at
\* stage Roll (Roll(2)..Roll(6), each once), which Run applies without a
\* panic; of the 9 outcomes of the two draws 1, 2, 3, 2, 1 make 2..6, which
\* are the entries of diceProbability, and the entries sum to 1.
C21_Dice ==
    /\ \A a \in Draws, b \in Draws : roll(a, b) \in MinRoll..MaxRoll
    /\ \A v \in MinRoll..MaxRoll :
           /\ Ways(v) > 0
           /\ diceProbability[v] = NewRat(Ways(v), Cardinality(Draws \X Draws))
           /\ IsInt(Mul(diceProbability[v], NewRat(9, 1)))
    /\ Ninths(MaxRoll) = 9
    /\ stage = StageRoll =>
           /\ ValidDecisions(ss) = [k \in 1..5 |-> Roll(k + 1)]
           /\ \A a \in Draws, b \in Draws :
                  /\ Cardinality({k \in 1..Len(ValidDecisions(ss)) :
                                    ValidDecisions(ss)[k] = Roll(roll(a, b))}) = 1
                  /\ ~runRoll(ss, a, b).panic

\* C21 witness: a player holding nothing has moved by the roll of two draws
\* that differ
C21_Witness ==
    /\ trail # <<>>
    /\ err = NoErr
    /\ Prev.stage = StageRoll
    /\ Prev.round = round
    /\ \E i \in 1..Len(players) : \E a \in Draws, b \in Draws :
           /\ i = Prev.curPlayer + 1
           /\ a # b
           /\ Prev.players[i].HeldTreasure = <<>>
           /\ ~Prev.players[i].TurnedAround
           /\ players[i].Position = Prev.players[i].Position + roll(a, b)

(* ================== properties of the exported Move ==================== *)
\* the numbers of spaces Move is called with
MoveInputs == (0..MaxRoll) \cup {MaxSpaces}

\* C22: the exported State.Move never moves a player off the board: for any
\* number of spaces the position stays a tile index (a player moving 1000
\* spaces forward from tile 0 stops at the last tile, a turned-around player
\* stops at the submarine).
C22_MoveStaysOnBoard ==
    \A p \in 0..(Len(players) - 1) : \A spaces \in MoveInputs :
        LET r == Move(ss, p, spaces)
        IN  /\ r.err = NoErr
            /\ inBounds(ss, PlayerAt(r.s, p).Position)
            /\ (spaces = MaxSpaces /\ Len(players) = 1) =>
                   PlayerAt(r.s, p).Position =
                       IF PlayerAt(ss, p).TurnedAround THEN 0 ELSE Len(tiles) - 1

(* ===================== properties of the fresh board =================== *)
\* the number of tiles among those at positions from..to that hold exactly
\* one treasure of type tt and value v
Holding(from, to, tt, v) ==
    Cardinality({j \in from..to :
        /\ TileAt(ss, j).Type = TileTypeTreasure
        /\ Deref(heap, TileAt(ss, j).Treasure) = <<Treasure(tt, v)>>})

\* the number of times v occurs in the list vl
Occurrences(vl, v) == Cardinality({i \in 1..Len(vl) : vl[i] = v})

\* C23: the state NewStandardState(n) returns has air 25, round 1, stage
\* Roll, current player 0, n players on tile 0 with no treasure and not
\* turned around, and 33 tiles: tile 0 is the only Submarine, tiles 1-8,
\* 9-16, 17-24, 25-32 are Treasure tiles with a single treasure of rank 1,
\* 2, 3, 4, and the values of a rank group are a permutation of the eight
\* values of the rank (each of its four values twice).
C23_FreshState ==
    history = <<>> =>
        /\ air = 25 /\ round = 1 /\ stage = StageRoll /\ curPlayer = 0
        /\ Len(players) \in 1..MaxPlayers
        /\ \A i \in 1..Len(players) :
               /\ players[i].Position = 0
               /\ ~players[i].TurnedAround
               /\ Elems(heap, players[i].HeldTreasure) = <<>>
               /\ players[i].StashedTreasure = <<>>
        /\ Len(tiles) = 33
        /\ \A j \in 0..32 : (TileAt(ss, j).Type = TileTypeSubmarine) <=> (j = 0)
        /\ \A rank \in 1..4 :
               /\ \A j \in (8 * rank - 7)..(8 * rank) :
                      /\ TileAt(ss, j).Type = TileTypeTreasure
                      /\ Len(Deref(heap, TileAt(ss, j).Treasure)) = 1
                      /\ Deref(heap, TileAt(ss, j).Treasure)[1].Type = rank
               /\ \A v \in (4 * rank - 4)..(4 * rank - 1) :
                      /\ Occurrences(treasureValues[rank], v) = 2
                      /\ Holding(8 * rank - 7, 8 * rank, rank, v) = 2

\* C23 witness: a fresh state for two players on which every rank group has
\* been shuffled out of the order of the value table
C23_Witness ==
    /\ history = <<>>
    /\ Len(players) = 2
    /\ \A rank \in 1..4 :
           [j \in 1..8 |-> Deref(heap, TileAt(ss, 8 * rank - 8 + j).Treasure)[1].Value]
               # treasureValues[rank]

(* ================= properties of the stages of a turn ================== *)
\* C24: after a successful Do(Roll(v)) the stage is PickUp if the tile the
\* current player has landed on is a Treasure tile, otherwise Drop if that
\* tile is Empty and the player holds at least one stack, otherwise the turn
\* advances; in the PickUp and Drop cases the current player (and all else
\* the move left) is unchanged.
C24_AfterRoll ==
    /\ stage = StageRoll =>
           \A v \in MinRoll..MaxRoll :
               LET m      == rollMove(ss, Roll(v)).s
                   landed == TileAt(m, PlayerAt(m, curPlayer).Position)
                   holds  == Len(held(m, curPlayer))
                   after  == doDecision(ss, Roll(v))
               IN  /\ after.err = NoErr
                   /\ IF landed.Type = TileTypeTreasure
                          THEN after.s = [m EXCEPT !.stage = StagePickUp]
                      ELSE IF landed.Type = TileTypeEmpty /\ holds >= 1
                          THEN after.s = [m EXCEPT !.stage = StageDrop]
                      ELSE after = toNextTurn(m)
    /\ (trail # <<>> /\ Prev.stage = StageRoll /\ err = NoErr) =>
           /\ stage = StagePickUp =>
                  /\ TileAt(ss, cp.Position).Type = TileTypeTreasure
                  /\ curPlayer = Prev.curPlayer
           /\ stage = StageDrop =>
                  /\ TileAt(ss, cp.Position).Type = TileTypeEmpty
                  /\ Len(held(ss, curPlayer)) >= 1
                  /\ curPlayer = Prev.curPlayer
           /\ (stage \notin {StagePickUp, StageDrop} /\ round = Prev.round) =>
                  LET mover == PlayerAt(ss, Prev.curPlayer)
                  IN  /\ TileAt(ss, mover.Position).Type # TileTypeTreasure
                      /\ TileAt(ss, mover.Position).Type = TileTypeEmpty =>
                             Len(held(ss, Prev.curPlayer)) = 0

\* C24 witness: a roll has taken a player that holds treasure to an Empty
\* tile, in a game of two, and the player is asked what to drop
C24_Witness ==
    /\ trail # <<>>
    /\ Prev.stage = StageRoll
    /\ err = NoErr
    /\ stage = StageDrop
    /\ Len(players) = 2
    /\ cp.Position # Prev.players[curPlayer + 1].Position

\* C25: at stage Turn, Do(Turn(true)) sets the current player's turnedAround
\* and Do(Turn(false)), where it is a valid decision, leaves it false; in
\* both cases the next stage is Roll with the same current player, and air,
\* round, positions, tiles and held and stashed treasure are unchanged.
C25_Turn ==
    /\ stage = StageTurn =>
           /\ ~cp.TurnedAround
           /\ \A b \in BOOLEAN :
                  isValid(ss, Turn(b)) =>
                      doDecision(ss, Turn(b)) =
                          Result([ss EXCEPT !.players[curPlayer + 1].TurnedAround = b,
                                            !.stage = StageRoll],
                                 NoErr)
    /\ (trail # <<>> /\ Prev.stage = StageTurn /\ err = NoErr) =>
           Now = [Prev EXCEPT !.stage = StageRoll,
                              !.players[curPlayer + 1].TurnedAround = cp.TurnedAround,
                              !.history = @ + 1]

\* C25 witness: a player holding treasure has decided to turn around, and
\* is about to roll
C25_Witness ==
    /\ trail # <<>>
    /\ Prev.stage = StageTurn
    /\ err = NoErr
    /\ stage = StageRoll
    /\ curPlayer = Prev.curPlayer
    /\ cp.TurnedAround
    /\ ~Prev.players[curPlayer + 1].TurnedAround
    /\ Len(held(ss, curPlayer)) >= 1

\* C26: at stage Turn the only valid decision of a player on the last tile
\* of the board is Turn(true) (Do rejects Turn(false)); on any other tile
\* the valid decisions are exactly Turn(true) and Turn(false).
C26_TurnChoices ==
    stage = StageTurn =>
        IF cp.Position = Len(tiles) - 1
            THEN /\ ValidDecisions(ss) = <<Turn(TRUE)>>
                 /\ doDecision(ss, Turn(FALSE)) = Result(ss, ErrInvalidDecision)
                 /\ doDecision(ss, Turn(TRUE)).err = NoErr
            ELSE /\ ValidDecisions(ss) = <<Turn(TRUE), Turn(FALSE)>>
                 /\ doDecision(ss, Turn(FALSE)).err = NoErr
                 /\ doDecision(ss, Turn(TRUE)).err = NoErr

\* C26 witness: a player on the last tile of the board is asked whether to
\* turn around
C26_Witness ==
    /\ stage = StageTurn
    /\ cp.Position = Len(tiles) - 1
    /\ err = NoErr

\* C27: at stage Drop, ValidDecisions() is Drop(0, false) and one decision
\* Drop(i, true) for each index i of the current player's held stacks:
\* (number of held stacks + 1) decisions, no two the same; Do rejects
\* Drop(i, true) for every i outside the indices of the held stacks.
C27_DropChoices ==
    stage = StageDrop =>
        LET vdl == ValidDecisions(ss)
            n   == Len(held(ss, curPlayer))
        IN  /\ Len(vdl) = n + 1
            /\ {vdl[k] : k \in 1..Len(vdl)} =
                   {Drop(0, FALSE)} \cup {Drop(i, TRUE) : i \in 0..(n - 1)}
            /\ \A j, k \in 1..Len(vdl) : j # k => vdl[j] # vdl[k]
            /\ \A i \in {-1} \cup (n..(n + MaxDropIndex)) :
                   doDecision(ss, Drop(i, TRUE)) = Result(ss, ErrInvalidDecision)

\* C27 witness: a roll has left a player holding two stacks on an Empty
\* tile, with three decisions to choose from
C27_Witness ==
    /\ stage = StageDrop
    /\ Len(held(ss, curPlayer)) = 2
    /\ Len(ValidDecisions(ss)) = 3
    /\ trail # <<>>
    /\ Prev.stage = StageRoll
    /\ err = NoErr

(* =================== properties of the turn advance ==================== *)
\* the state decision d, valid in s, leaves for the turn advance
Acted(s, d) ==
    CASE s.stage = StageRoll -> rollMove(s, d).s
      [] s.stage = StagePickUp -> IF d.yes THEN pickup(s, s.curPlayer).s ELSE s
      [] s.stage = StageDrop -> IF d.yes THEN drop(s, s.curPlayer, d.value).s ELSE s
      [] OTHER -> s

\* the turn advances on decision d: a pick-up or drop decision, or a roll
\* that leads to neither
Advances(s, d) ==
    /\ isValid(s, d)
    /\ s.stage \in {StageRoll, StagePickUp, StageDrop}
    /\ s.stage = StageRoll =>
           LET m  == rollMove(s, d).s
               pl == PlayerAt(m, m.curPlayer)
               t  == TileAt(m, pl.Position)
           IN  /\ t.Type # TileTypeTreasure
               /\ ~(t.Type = TileTypeEmpty /\ pl.HeldTreasure.len > 0)

AllFinished(s) == \A i \in 0..(Len(s.players) - 1) : isFinished(PlayerAt(s, i))

\* how far after the acting player the players that are not finished sit
Ahead(s) ==
    {k \in 1..(Len(s.players) - 1) :
        ~isFinished(PlayerAt(s, (s.curPlayer + k) % Len(s.players)))}

\* the first player after the acting player, in cyclic order, that is not
\* finished; the acting player if there is none
Successor(s) ==
    IF Ahead(s) = {} THEN s.curPlayer
    ELSE (s.curPlayer + (CHOOSE k \in Ahead(s) : \A j \in Ahead(s) : k <= j))
             % Len(s.players)

\* the round ends with the advance
Ends(s) == s.air <= 0 \/ AllFinished(s)

\* C28: when a turn advances the new current player is the first player
\* after the acting player in cyclic order that is not finished, or the
\* acting player if all others are finished; the round-end resolution runs
\* in that step iff air <= 0 or every player is finished, and otherwise the
\* advance changes no player's position, treasure or flag.
C28_Advance ==
    \A k \in 1..Len(ValidDecisions(ss)) :
        LET d     == ValidDecisions(ss)[k]
            m     == Acted(ss, d)
            after == doDecision(ss, d)
        IN  Advances(ss, d) =>
                /\ after.err = NoErr
                /\ after.s.curPlayer = Successor(m)
                /\ (after.s.round = m.round + 1) <=> Ends(m)
                /\ after.s.round \in {m.round, m.round + 1}
                /\ ~Ends(m) =>
                       /\ playerViews(after.s) = playerViews(m)
                       /\ tileViews(after.s) = tileViews(m)
                       /\ after.s.air = m.air

\* C29: when a turn advances without a round-end resolution the stage is
\* Turn iff the new current player is off the submarine and has not turned
\* around, and Roll otherwise; a player that has turned around stays turned
\* around for the rest of the round and is never offered the Turn stage
\* again in it.
C29_StageAfterAdvance ==
    /\ \A k \in 1..Len(ValidDecisions(ss)) :
           LET d     == ValidDecisions(ss)[k]
               m     == Acted(ss, d)
               after == doDecision(ss, d).s
               next  == PlayerAt(after, after.curPlayer)
           IN  (Advances(ss, d) /\ ~Ends(m)) =>
                   /\ after.stage \in {StageTurn, StageRoll}
                   /\ (after.stage = StageTurn) <=>
                          (next.Position > 0 /\ ~next.TurnedAround)
    /\ stage = StageTurn => (cp.Position > 0 /\ ~cp.TurnedAround)
    /\ (trail # <<>> /\ err = NoErr /\ Prev.round = round) =>
           \A i \in 1..Len(players) :
               Prev.players[i].TurnedAround => players[i].TurnedAround

\* C29 witness: the turn has passed, without the round ending, to a player
\* off the submarine that has turned around, and that player is to roll
C29_Witness ==
    /\ trail # <<>>
    /\ err = NoErr
    /\ Prev.stage \in {StagePickUp, StageDrop}
    /\ Prev.round = round
    /\ curPlayer # Prev.curPlayer
    /\ cp.Position > 0
    /\ cp.TurnedAround
    /\ stage = StageRoll

(* ------------- properties of the values of the exhaustive phase -------- *)
\* the value the map dm holds for decision vd
ValueOf(dm, vd) == dm[CHOOSE k \in 1..Len(dm) : dm[k].vd = vd].best

\* the values of the child map that has come back
ChildValues == {ret.dm[k].best.val : k \in 1..Len(ret.dm)}

\* an evaluate whose values are followed has the result of the child search
\* of the state after its decision Top.vdl[Top.i], or the estimate of it
Valuing ==
    /\ calls # <<>>
    /\ Valued
    /\ Top.fn = "evaluate"
    /\ Top.pc \in {"child", "estimate"}
    /\ ret.set
    /\ ret.err = NoErr

\* this step assigns dm[vd] (and undoes the decision without an error)
Assigns ==
    /\ Valuing
    /\ Len(calls') = Len(calls)
    /\ calls'[Len(calls)].pc = "loop"

\* this step calls Estimate for the evaluated player on the state as it is
Estimates ==
    /\ Len(calls') = Len(calls) + 1
    /\ calls'[Len(calls')].fn = "Estimate"
    /\ calls'[Len(calls')].player = Top.player
    /\ UNCHANGED <<air, round, stage, curPlayer, players, tiles, heap, history>>

\* the rule of C30 for one step of evaluate
BestRule ==
    /\ (Valuing /\ Top.pc = "child" /\ calls' # calls) =>
           (Len(ret.dm) = 0 <=> Estimates)
    /\ Assigns =>
           LET best == ValueOf(calls'[Len(calls)].dm, Top.vdl[Top.i])
           IN  IF Top.pc = "estimate"
                   THEN best.val = ret.util
                   ELSE /\ ChildValues # {}
                        /\ best.val = IF curPlayer = Top.player
                                          THEN Largest(ChildValues)
                                          ELSE Smallest(ChildValues)

\* C30: in the exhaustive phase the value assigned to a decision d is the
\* Estimate of the state after d when the recursive search of that state
\* yields no child values; otherwise it is the maximum of the child
\* decisions' values when the player to act in the state after d is the
\* evaluated player, and their minimum when it is any other player.
C30_BestValue == [][BestRule]_vars

\* C30 witness: an evaluate has just given a decision that hands the turn to
\* the other player a value taken from the child values, next to a decision
\* whose value is an estimate or was taken for the evaluated player
C30_Witness ==
    /\ calls # <<>>
    /\ Valued
    /\ Top.fn = "evaluate"
    /\ Top.pc = "loop"
    /\ Top.i > 1
    /\ err = NoErr
    /\ LET vd == Top.vdl[Top.i - 1]
       IN  /\ doDecision(ss, vd).err = NoErr
           /\ doDecision(ss, vd).s.curPlayer # Top.player
           /\ ValueOf(Top.dm, vd).from = "children"
           /\ ValueOf(Top.dm, vd).val > 0

(* ================== properties that hold throughout play =============== *)
\* every treasure a reader of view v finds: on the tiles, in the held stacks
\* and in the stashed stacks, one after the other
Everywhere(v) ==
    Flatten([j \in 1..Len(v.tiles) |-> v.tiles[j].Stack])
        \o Flatten([i \in 1..Len(v.players) |-> Flatten(v.players[i].HeldTreasure)])
        \o Flatten([i \in 1..Len(v.players) |-> Flatten(v.players[i].StashedTreasure)])

\* the number of individual treasures NewStandardState lays out (32 with
\* the groups of eight of the source)
Treasures == Len(getTreasureTypes) * GroupSize

\* C31: treasure is conserved: in every state reached from
\* NewStandardState(n) through successful Do calls the treasures on the
\* tiles, in the held stacks and in the stashed stacks are together as many
\* as were laid out, and each of them is found as often as it was laid out
\* (none in two places at once).
C31_TreasureConserved ==
    err = NoErr =>
        /\ Len(Everywhere(Now)) = Treasures
        /\ \A k \in 1..Len(getTreasureTypes) :
               \A v \in {treasureValues[getTreasureTypes[k]][j] : j \in 1..GroupSize} :
                   Occurrences(Everywhere(Now), Treasure(getTreasureTypes[k], v)) =
                       Occurrences(getTreasureValues(getTreasureTypes[k]), v)

\* C32: stage consistency: at stage PickUp the current player's tile is a
\* Treasure tile; at stage Drop it is an Empty tile and the player holds at
\* least one stack; at stage Turn the current player is at a position > 0
\* and has not turned around.
C32_StageConsistency ==
    /\ stage = StagePickUp => TileAt(ss, cp.Position).Type = TileTypeTreasure
    /\ stage = StageDrop =>
           /\ TileAt(ss, cp.Position).Type = TileTypeEmpty
           /\ cp.HeldTreasure.len >= 1
    /\ stage = StageTurn => (cp.Position > 0 /\ ~cp.TurnedAround)

\* C32 witness: a player on its way back with a single stack has been moved
\* by its roll onto an emptied tile and is asked whether to drop
C32_Witness ==
    /\ trail # <<>>
    /\ err = NoErr
    /\ Prev.stage = StageRoll
    /\ stage = StageDrop
    /\ cp.TurnedAround
    /\ cp.HeldTreasure.len = 1
    /\ TileAt(ss, cp.Position).Type = TileTypeEmpty

\* C33: in every state whose stage is not EndOfGame the current player is
\* not finished (not at position 0 with turnedAround set): a player that
\* has returned to the submarine is not asked for a decision again in that
\* round.
C33_CurrentPlayerUnfinished ==
    stage # StageEndOfGame => ~isFinished(cp)

\* C33 witness: the turn has passed over a player that is back on the
\* submarine and has come round to the player that acted last
C33_Witness ==
    /\ trail # <<>>
    /\ err = NoErr
    /\ stage # StageEndOfGame
    /\ Prev.round = round
    /\ Prev.stage \in {StagePickUp, StageDrop}
    /\ Prev.curPlayer = curPlayer
    /\ \E i \in 1..Len(players) : i - 1 # curPlayer /\ isFinished(players[i])

\* C34: along successful Do calls the stages follow the turn protocol: the
\* stage PickUp or Drop is only entered directly from stage Roll, with the
\* same current player; a decision taken at PickUp or Drop is followed by
\* stage Roll, Turn or EndOfGame; a decision taken at Turn is followed by
\* stage Roll (of the same player).  Hence a turn is at most one Turn
\* decision, one Roll and at most one PickUp or Drop decision, in that
\* order.
C34_TurnProtocol ==
    (trail # <<>> /\ err = NoErr) =>
        /\ stage \in {StagePickUp, StageDrop} =>
               /\ Prev.stage = StageRoll
               /\ Prev.curPlayer = curPlayer
               /\ Prev.round = round
        /\ Prev.stage \in {StagePickUp, StageDrop} =>
               stage \in {StageRoll, StageTurn, StageEndOfGame}
        /\ Prev.stage = StageTurn =>
               /\ stage = StageRoll
               /\ Prev.curPlayer = curPlayer
               /\ Prev.round = round

\* C34 witness: a whole turn of one player: a Turn decision, the roll, and
\* a pick-up or drop decision that passes the turn on
C34_Witness ==
    /\ Len(trail) >= 3
    /\ err = NoErr
    /\ trail[Len(trail) - 2].stage = StageTurn
    /\ trail[Len(trail) - 1].stage = StageRoll
    /\ Prev.stage \in {StagePickUp, StageDrop}
    /\ trail[Len(trail) - 2].curPlayer = Prev.curPlayer
    /\ trail[Len(trail) - 1].curPlayer = Prev.curPlayer
    /\ stage \in {StageRoll, StageTurn}

\* the game a view shows: everything but the number of snapshots
Game(v) == [v EXCEPT !.history = 0]

C36_AirBeforeRoll ==
    stage \in {StageRoll, StageTurn} => air >= 1

\* C36 witness: the air ran out in a roll that left its player a pick-up or
\* drop decision, and the turn advance after that decision has ended the round
C36_Witness ==
    /\ trail # <<>>
    /\ err = NoErr
    /\ Prev.stage \in {StagePickUp, StageDrop}
    /\ Prev.air = 0
    /\ round = Prev.round + 1
    /\ stage = StageRoll
    /\ air = InitialAir

\* s is t with something appended
Extends(s, t) == Len(s) >= Len(t) /\ SubSeq(s, 1, Len(t)) = t

\* C37: along successful Do calls each player's stashed treasure only
\* grows: it changes only at a round-end resolution, only for the players on
\* the submarine at that moment, and only by appending the stacks that
\* player held; no Do removes or alters a stashed stack.
C37_StashGrows ==
    /\ \A k \in 1..Len(ValidDecisions(ss)) :
           LET d     == ValidDecisions(ss)[k]
               m     == Acted(ss, d)
               after == doDecision(ss, d).s
           IN  \A i \in 1..Len(players) :
                   /\ m.players[i].StashedTreasure = players[i].StashedTreasure
                   /\ after.players[i].StashedTreasure =
                          IF Advances(ss, d) /\ Ends(m) /\ m.players[i].Position = 0
                              THEN players[i].StashedTreasure
                                       \o Elems(m.heap, m.players[i].HeldTreasure)
                              ELSE players[i].StashedTreasure
    /\ (trail # <<>> /\ err = NoErr) =>
           \A i \in 1..Len(players) :
               /\ Extends(players[i].StashedTreasure, Prev.players[i].StashedTreasure)
               /\ players[i].StashedTreasure # Prev.players[i].StashedTreasure =>
                      round = Prev.round + 1

\* C37 witness: a round-end resolution has appended what a player brought
\* home to the stash it had from an earlier round
C37_Witness ==
    /\ trail # <<>>
    /\ err = NoErr
    /\ round = Prev.round + 1
    /\ \E i \in 1..Len(players) :
           /\ Len(Prev.players[i].StashedTreasure) >= 1
           /\ Len(Prev.players[i].HeldTreasure) >= 1
           /\ players[i].StashedTreasure =
                  Prev.players[i].StashedTreasure \o Prev.players[i].HeldTreasure

\* C38: once a player is finished (position 0, turned around) no Do before
\* the next round-end resolution changes its position, its flag, its held
\* treasure or its stashed treasure, and air is never reduced on its
\* account: the finished player is not the one to act, and a roll costs the
\* stacks of the player that rolls.
C38_FinishedUntouched ==
    /\ \A k \in 1..Len(ValidDecisions(ss)) :
           LET after == doDecision(ss, ValidDecisions(ss)[k]).s
           IN  after.round = round =>
                   \A i \in 1..Len(players) :
                       isFinished(players[i]) =>
                           playerViews(after)[i] = playerViews(ss)[i]
    /\ (trail # <<>> /\ err = NoErr /\ round = Prev.round) =>
           /\ \A i \in 1..Len(players) :
                  isFinished(Prev.players[i]) =>
                      /\ Now.players[i] = Prev.players[i]
                      /\ Prev.curPlayer # i - 1
           /\ air = IF Prev.stage = StageRoll
                        THEN Max(0, Prev.air
                                 - Len(Prev.players[Prev.curPlayer + 1].HeldTreasure))
                        ELSE Prev.air

\* C38 witness: a player is back on the submarine with a stack in its hand
\* and the other player, holding a stack too, has rolled: the air went down
\* by one
C38_Witness ==
    /\ trail # <<>>
    /\ err = NoErr
    /\ round = Prev.round
    /\ Prev.stage = StageRoll
    /\ air = Prev.air - 1
    /\ \E i \in 1..Len(players) :
           /\ isFinished(Prev.players[i])
           /\ Len(Prev.players[i].HeldTreasure) >= 1
           /\ Now.players[i] = Prev.players[i]

\* C39: within a round, along successful Do calls, a player's turnedAround
\* flag never goes from true back to false, the position of a player that
\* has not turned around never decreases and the position of a player that
\* has turned around never increases; flag and position are reset only by
\* the round-end resolution.
C39_OneWay ==
    /\ \A k \in 1..Len(ValidDecisions(ss)) :
           LET after == doDecision(ss, ValidDecisions(ss)[k]).s
           IN  after.round = round =>
                   \A i \in 1..Len(players) :
                       /\ players[i].TurnedAround => after.players[i].TurnedAround
                       /\ ~players[i].TurnedAround =>
                              after.players[i].Position >= players[i].Position
                       /\ players[i].TurnedAround =>
                              after.players[i].Position <= players[i].Position
    /\ (trail # <<>> /\ err = NoErr) =>
           \A i \in 1..Len(players) :
               IF round = Prev.round
                   THEN /\ Prev.players[i].TurnedAround => players[i].TurnedAround
                        /\ ~Prev.players[i].TurnedAround =>
                               players[i].Position >= Prev.players[i].Position
                        /\ Prev.players[i].TurnedAround =>
                               players[i].Position <= Prev.players[i].Position
                   ELSE players[i].Position = 0 /\ ~players[i].TurnedAround

\* C39 witness: a player that had turned around has rolled and moved towards
\* the submarine without reaching it, past the other player, which is on
\* its way down
C39_Witness ==
    /\ trail # <<>>
    /\ err = NoErr
    /\ round = Prev.round
    /\ Prev.stage = StageRoll
    /\ \E i, j \in 1..Len(players) :
           /\ Prev.curPlayer = i - 1
           /\ Prev.players[i].TurnedAround
           /\ players[i].Position < Prev.players[i].Position
           /\ players[i].Position > 0
           /\ ~players[j].TurnedAround
           /\ players[i].Position < players[j].Position
           /\ players[j].Position < Prev.players[i].Position

====
